---------------------------- MODULE Spec2Model ----------------------------
(***************************************************************************)
(* CPA-Dashboard backend: the study-time sync ledger                       *)
(* (study_time_sync_sessions) and the aggregation read on top of it.       *)
(*                                                                         *)
(* Spec     : the HTTP handlers run one after the other, each handler is   *)
(*            one action (sync_study_time, get_study_time_summary).        *)
(* SpecConc : two server workers run crud.apply_study_time_total_ms at the *)
(*            same time, each in its own SQLAlchemy session on a           *)
(*            READ COMMITTED database; every database round trip           *)
(*            (SELECT, INSERT+COMMIT, refresh, UPDATE+COMMIT) is one step. *)
(* SpecDash : get_dashboard_summary over ledgers of four days and the      *)
(*            values of settings['subjects'].                              *)
(* SpecSummary : get_subjects_summary over the ledger and the legacy rows. *)
(* SpecRS   : the review-set operations of crud.py and the migration that  *)
(*            creates their tables, one call after the other.              *)
(* SpecSeed : the migration, the list read, the creation and deletion of   *)
(*            lists and the creation of items over every                   *)
(*            settings['review_timing'] and flag.                          *)
(* SpecFlag : _get_bool_setting over the values of a settings row.         *)
(* SpecRename : update_subject_name.                                       *)
(* SpecGen  : generate_todos_from_review_set over lists with several items.*)
(* SpecRaces : two workers inside get_all_review_set_lists and             *)
(*            delete_review_set_list at the same time; pc, req, sess and   *)
(*            ret hold the worker's position, its call, the number of      *)
(*            lists returned and the number seeded or deleted.             *)
(* SpecMalformed : the list read and update_subject_name over              *)
(*            review_timing values that are not a JSON array.              *)
(* SpecNotFound : updates, deletions and item creations with unknown ids.  *)
(* SpecReject : generate_todos_from_review_set on what it must refuse.     *)
(* SpecFrame : sync calls next to progress rows, todos and settings.       *)
(* SpecRenameLedger : update_subject_name and get_subjects_summary over    *)
(*            ledgers with rows.                                           *)
(*                                                                         *)
(* A date_key "yyyy-MM-dd" is modelled by the triple <<yyyy, MM, dd>> of   *)
(* its zero-padded fields; comparing two such strings character by         *)
(* character is comparing the triples field by field from the left.        *)
(***************************************************************************)
EXTENDS Integers, Sequences, FiniteSets, Bags, TLC

VARIABLES
    ledger,     \* table study_time_sync_sessions: a bag of rows
    call,       \* Spec: the last request handled and its response
    hist,       \* Spec: per identity, the highest total reported and the sum of the deltas returned
    pc,         \* SpecConc: per worker, the position inside apply_study_time_total_ms
    req,        \* SpecConc: per worker, the arguments of its call
    sess,       \* SpecConc: per worker, the last_total_ms its ORM object holds
    ret,        \* SpecConc: per worker, the returned delta_ms
    ledger0,    \* SpecConc: the table when the two calls started
    decreased,  \* SpecConc: some UPDATE lowered a stored last_total_ms
    settings,   \* table settings: per key, the stored value or None (no row)
    progress,   \* table study_progress_legacy: a set of rows
    dash,       \* SpecDash: the last get_dashboard_summary call and what it returned
    summary,    \* SpecSummary: the last get_subjects_summary call and what it returned
    tables_ready, \* SpecRS: review_set_lists and review_set_items exist
    lists,      \* SpecRS: table review_set_lists, a set of rows
    items,      \* SpecRS: table review_set_items, a set of rows
    todos,      \* SpecRS: table todos, a set of rows
    seqs,       \* SpecRS: the last value of each table's id sequence
    rs          \* SpecRS: the last review-set operation and its outcome

seqVars == <<call, hist>>
concVars == <<pc, req, sess, ret, ledger0, decreased>>
dashVars == <<progress, dash, summary>>
rsVars == <<tables_ready, lists, items, todos, seqs, rs>>
vars == <<ledger, seqVars, concVars, settings, dashVars, rsVars>>

---------------------------------------------------------------------------
(* Bounds                                                                  *)

\* reported totals are 0 ms and 600000 ms, 900000 ms, ... in steps of 300000 ms:
\* MaxTotals of them above 0
MaxTotals == 2

TotalsMs == {0} \cup {600000 + 300000 * k : k \in 0..(MaxTotals - 1)}

Users == {"default", "u2"}
\* Mon 2026-01-26, Sun 2026-02-01 (same week), Mon 2026-02-02 (next week)
DateKeys == {<<2026, 1, 26>>, <<2026, 2, 1>>, <<2026, 2, 2>>}

Ident(u, d, s, c) == [user_id |-> u, date_key |-> d, subject |-> s, client_session_id |-> c]

\* the identities the requests name: two subjects of one user on one day (a
\* Sunday), the same user on the Monday of that week, and another user on the
\* Monday after it
Idents ==
    {Ident("default", <<2026, 2, 1>>, "Tax", "s1"),
     Ident("default", <<2026, 2, 1>>, "Audit", "s1"),
     Ident("default", <<2026, 1, 26>>, "Tax", "s1"),
     Ident("u2", <<2026, 2, 2>>, "Tax", "s1")}

Max(a, b) == IF a >= b THEN a ELSE b

---------------------------------------------------------------------------
(* Table study_time_sync_sessions                                          *)

Row(ident, ms) ==
    [user_id |-> ident.user_id, date_key |-> ident.date_key,
     subject |-> ident.subject, client_session_id |-> ident.client_session_id,
     last_total_ms |-> ms]

IdentOf(r) ==
    [user_id |-> r.user_id, date_key |-> r.date_key, subject |-> r.subject,
     client_session_id |-> r.client_session_id]

\* the rows of one identity
RowsOf(led, ident) == {r \in BagToSet(led) : IdentOf(r) = ident}

\* number of rows of one identity, copies counted
CountOf(led, ident) ==
    LET S == RowsOf(led, ident)
        f[T \in SUBSET S] ==
            IF T = {} THEN 0
            ELSE LET r == CHOOSE x \in T : TRUE IN CopiesIn(r, led) + f[T \ {r}]
    IN f[S]

None == [none |-> TRUE]

\* db.query(StudyTimeSyncSession).filter(...).first()
QueryFirst(led, ident) ==
    IF RowsOf(led, ident) = {} THEN None
    ELSE CHOOSE r \in RowsOf(led, ident) : TRUE

\* the table without the constraint
UniqueViolation_NotEnforced(led, ident) == FALSE

\* UniqueConstraint uq_study_time_sync: an INSERT of an identity that has a row fails
UniqueViolation(led, ident) == RowsOf(led, ident) # {}

\* db.add(StudyTimeSyncSession(..., last_total_ms=0)); db.commit()
InsertRow(led, ident) == led (+) SetToBag({Row(ident, 0)})

\* the UPDATE without its WHERE
UpdateRow_EveryRow(led, r, ms) ==
    LET S == BagToSet(led)
        T == {[x EXCEPT !.last_total_ms = ms] : x \in S}
    IN [t \in T |-> Cardinality({x \in S : [x EXCEPT !.last_total_ms = ms] = t})]

\* UPDATE study_time_sync_sessions SET last_total_ms = ms WHERE id = <row>
UpdateRow(led, r, ms) ==
    (led (-) SetToBag({r})) (+) SetToBag({[r EXCEPT !.last_total_ms = ms]})

\* variants of the two lines below with a slip in them
DeltaMs_NoFloor(total_ms, last_ms) == total_ms - last_ms
DeltaMs_Distance(total_ms, last_ms) ==
    IF total_ms >= last_ms THEN total_ms - last_ms ELSE last_ms - total_ms
DeltaMs_WholeTotal(total_ms, last_ms) == total_ms
NewLastTotalMs_Unconditional(total_ms, last_ms) == total_ms
NewLastTotalMs_NotStored(total_ms, last_ms) == last_ms

\* delta_ms = max(int(total_ms) - last_ms, 0)
DeltaMs(total_ms, last_ms) == Max(total_ms - last_ms, 0)

\* if int(total_ms) > last_ms: sess.last_total_ms = int(total_ms)
NewLastTotalMs(total_ms, last_ms) == IF total_ms > last_ms THEN total_ms ELSE last_ms

\* the table after the lookup-or-create of apply_study_time_total_ms
EnsureRow(led, ident) ==
    IF QueryFirst(led, ident) = None THEN InsertRow(led, ident) ELSE led

\* the variant that never commits
ApplyLedger_NotCommitted(led, ident, total_ms) == led

\* apply_study_time_total_ms run alone: the table it leaves
ApplyLedger(led, ident, total_ms) ==
    LET led1 == EnsureRow(led, ident)
        row == QueryFirst(led1, ident)
        last_ms == row.last_total_ms
    IN UpdateRow(led1, row, NewLastTotalMs(total_ms, last_ms))

\* apply_study_time_total_ms run alone: the delta it returns
ApplyDelta(led, ident, total_ms) ==
    LET led1 == EnsureRow(led, ident)
        last_ms == QueryFirst(led1, ident).last_total_ms
    IN DeltaMs(total_ms, last_ms)

---------------------------------------------------------------------------
(* Dates: datetime.strptime(date_key, "%Y-%m-%d").date(), date.weekday(),  *)
(* date +/- timedelta(days=n) and date.isoformat(), as get_study_time_-    *)
(* summary_ms uses them (proleptic Gregorian ordinals, as datetime.date).  *)

DaysInMonth == <<31, 28, 31, 30, 31, 30, 31, 31, 30, 31, 30, 31>>
DaysBeforeMonth == <<0, 31, 59, 90, 120, 151, 181, 212, 243, 273, 304, 334>>

IsLeap(y) == y % 4 = 0 /\ (y % 100 # 0 \/ y % 400 = 0)

\* strptime(...).date() followed by date.toordinal(): key is <<yyyy, MM, dd>>
ParseDateKey(key) ==
    LET y1 == key[1] - 1
    IN y1 * 365 + (y1 \div 4) - (y1 \div 100) + (y1 \div 400)
       + DaysBeforeMonth[key[2]]
       + (IF key[2] > 2 /\ IsLeap(key[1]) THEN 1 ELSE 0)
       + key[3]

\* date.weekday(): Monday is 0
Weekday(ord) == (ord + 6) % 7

\* date.isoformat() of the date with ordinal ord, as <<yyyy, MM, dd>>
Isoformat(ord) ==
    LET a == ord - 1
        n400 == a \div 146097
        b == a % 146097
        n100 == b \div 36524
        c == b % 36524
        n4 == c \div 1461
        d == c % 1461
        n1 == d \div 365
        n == d % 365
        year == n400 * 400 + 1 + n100 * 100 + n4 * 4 + n1
    IN IF n1 = 4 \/ n100 = 4 THEN <<year - 1, 12, 31>>
       ELSE LET leap == n1 = 3 /\ (n4 # 24 \/ n100 = 3)
                m0 == (n + 50) \div 32
                p0 == DaysBeforeMonth[m0] + (IF m0 > 2 /\ leap THEN 1 ELSE 0)
                month == IF p0 > n THEN m0 - 1 ELSE m0
                prec == IF p0 > n
                        THEN p0 - (DaysInMonth[month]
                                   + (IF month = 2 /\ leap THEN 1 ELSE 0))
                        ELSE p0
            IN <<year, month, n - prec + 1>>

\* string comparison a < b of two date keys
KeyLess(a, b) ==
    \/ a[1] < b[1]
    \/ a[1] = b[1] /\ a[2] < b[2]
    \/ a[1] = b[1] /\ a[2] = b[2] /\ a[3] < b[3]

\* week_start_key: the Monday of date_key's week
WeekStartKey(date_key) ==
    LET day == ParseDateKey(date_key) IN Isoformat(day - Weekday(day))

\* week_end_key: week_start + timedelta(days=7)
WeekEndKey(date_key) ==
    LET day == ParseDateKey(date_key) IN Isoformat((day - Weekday(day)) + 7)

---------------------------------------------------------------------------
(* get_study_time_summary_ms                                               *)

\* func.sum(last_total_ms) over the rows in S, NULL (no row) read as 0
SumLastTotalMs(led, S) ==
    LET f[T \in SUBSET S] ==
            IF T = {} THEN 0
            ELSE LET r == CHOOSE x \in T : TRUE
                 IN r.last_total_ms * CopiesIn(r, led) + f[T \ {r}]
    IN f[S]

\* .filter(user_id == user_id).filter(date_key == date_key)
TodayRows(led, user_id, date_key) ==
    {r \in BagToSet(led) : r.user_id = user_id /\ r.date_key = date_key}

\* the variant with a closed range: date_key <= week_end_key
WeekRows_ClosedRange(led, user_id, date_key) ==
    LET week_start_key == WeekStartKey(date_key)
        week_end_key == WeekEndKey(date_key)
    IN {r \in BagToSet(led) :
           /\ r.user_id = user_id
           /\ ~KeyLess(r.date_key, week_start_key)
           /\ ~KeyLess(week_end_key, r.date_key)}

\* .filter(user_id == ...).filter(date_key >= week_start_key).filter(date_key < week_end_key)
WeekRows(led, user_id, date_key) ==
    LET week_start_key == WeekStartKey(date_key)
        week_end_key == WeekEndKey(date_key)
    IN {r \in BagToSet(led) :
           /\ r.user_id = user_id
           /\ ~KeyLess(r.date_key, week_start_key)
           /\ KeyLess(r.date_key, week_end_key)}

TodayMs(led, user_id, date_key) == SumLastTotalMs(led, TodayRows(led, user_id, date_key))

WeekMs(led, user_id, date_key) == SumLastTotalMs(led, WeekRows(led, user_id, date_key))

---------------------------------------------------------------------------
(* Requests                                                                *)

Payload(u, d, s, c, t) ==
    [user_id |-> u, date_key |-> d, subject |-> s, client_session_id |-> c, total_ms |-> t]

\* the well-formed requests: every total on every identity above, and the same
\* with an empty user_id for one identity of user "default"
GoodPayloads ==
    {Payload(i.user_id, i.date_key, i.subject, i.client_session_id, t) :
        i \in Idents, t \in TotalsMs}
    \cup {Payload("", <<2026, 2, 1>>, "Audit", "s1", t) : t \in TotalsMs}

\* the ill-formed requests: an empty subject, an empty client_session_id, a
\* negative total_ms, and their combinations
BadPayloads ==
    {p \in [user_id : {"default"}, date_key : {<<2026, 2, 1>>}, subject : {"Tax", ""},
            client_session_id : {"s1", ""}, total_ms : {600000, -1}] :
        p.subject = "" \/ p.client_session_id = "" \/ p.total_ms < 0}

Payloads == GoodPayloads \cup BadPayloads

\* the variant without ge=0
SchemaValid_NoLowerBound(p) == TRUE

\* StudyTimeSyncRequest: total_ms: int = Field(..., ge=0)
SchemaValid(p) == p.total_ms >= 0

\* payload.user_id or "default"
EffectiveUser(p) == IF p.user_id = "" THEN "default" ELSE p.user_id

PayloadIdent(p) ==
    [user_id |-> EffectiveUser(p), date_key |-> p.date_key, subject |-> p.subject,
     client_session_id |-> p.client_session_id]

\* the checks of sync_study_time before it calls crud: 0 when the request passes
RejectStatus(p) ==
    IF ~SchemaValid(p) THEN 422
    ELSE IF p.subject = "" THEN 400
    ELSE IF p.client_session_id = "" THEN 400
    ELSE 0

CallRec(op, p, status, delta, today, week) ==
    [op |-> op, user_id |-> p.user_id, date_key |-> p.date_key, subject |-> p.subject,
     client_session_id |-> p.client_session_id, total_ms |-> p.total_ms,
     status |-> status, applied_delta_ms |-> delta,
     today_total_ms |-> today, week_total_ms |-> week]

NoCall ==
    [op |-> "none", user_id |-> "", date_key |-> <<0, 0, 0>>, subject |-> "",
     client_session_id |-> "", total_ms |-> 0, status |-> 0, applied_delta_ms |-> 0,
     today_total_ms |-> 0, week_total_ms |-> 0]

NoHist == [max |-> -1, sum |-> 0]

\* POST /api/study-time/sync
SyncStudyTime(p) ==
    /\ IF RejectStatus(p) # 0
       THEN /\ call' = CallRec("sync", p, RejectStatus(p), 0, 0, 0)
            /\ UNCHANGED <<ledger, hist>>
       ELSE LET ident == PayloadIdent(p)
                led1 == ApplyLedger(ledger, ident, p.total_ms)
                delta == ApplyDelta(ledger, ident, p.total_ms)
            IN /\ ledger' = led1
               /\ call' = CallRec("sync", p, 200, delta,
                                  TodayMs(led1, EffectiveUser(p), p.date_key),
                                  WeekMs(led1, EffectiveUser(p), p.date_key))
               /\ hist' = [hist EXCEPT ![ident] =
                             [max |-> Max(@.max, p.total_ms), sum |-> @.sum + delta]]
    /\ UNCHANGED <<concVars, settings, dashVars, rsVars>>

\* GET /api/study-time/summary
GetStudyTimeSummary(user_id, date_key) ==
    /\ call' = [NoCall EXCEPT !.op = "summary", !.user_id = user_id,
                              !.date_key = date_key, !.status = 200,
                              !.today_total_ms = TodayMs(ledger, user_id, date_key),
                              !.week_total_ms = WeekMs(ledger, user_id, date_key)]
    /\ UNCHANGED <<ledger, hist>>
    /\ UNCHANGED <<concVars, settings, dashVars, rsVars>>

NoReq == [ident |-> CHOOSE i \in Idents : TRUE, total_ms |-> 0]

\* the keys of table settings that crud.py reads
SettingKeys == {"subjects", "review_timing", "use_legacy_review_sets"}

NoSettings == [k \in SettingKeys |-> None]

NoDash == [op |-> "none"]
NoSummary == [op |-> "none"]
NoRs == [op |-> "none"]
NoSeqs == [review_set_lists |-> 0, review_set_items |-> 0, todos |-> 0]

\* the database right after the initial migration, as far as the ledger's
\* handlers are concerned: no settings row, no progress row, no review-set table
OtherTablesEmpty ==
    /\ settings = NoSettings
    /\ progress = {}
    /\ dash = NoDash
    /\ summary = NoSummary
    /\ tables_ready = FALSE
    /\ lists = {}
    /\ items = {}
    /\ todos = {}
    /\ seqs = NoSeqs
    /\ rs = NoRs

Procs == {1, 2}

Init ==
    /\ ledger = EmptyBag
    /\ call = NoCall
    /\ hist = [i \in Idents |-> NoHist]
    /\ pc = [w \in Procs |-> "idle"]
    /\ req = [w \in Procs |-> NoReq]
    /\ sess = [w \in Procs |-> -1]
    /\ ret = [w \in Procs |-> -1]
    /\ ledger0 = EmptyBag
    /\ decreased = FALSE
    /\ OtherTablesEmpty

Next ==
    \/ \E p \in Payloads : SyncStudyTime(p)
    \/ \E u \in Users, d \in DateKeys : GetStudyTimeSummary(u, d)

Spec == Init /\ [][Next]_vars

---------------------------------------------------------------------------
(* Properties of the ledger and of the summary, handlers run one at a time *)

\* the stored last_total_ms of an identity, 0 when it has no row
StoredMs(led, ident) ==
    IF RowsOf(led, ident) = {} THEN 0
    ELSE (CHOOSE r \in RowsOf(led, ident) : TRUE).last_total_ms

\* the sum of fn[i] over the identities i in S
SumOver(fn, S) ==
    LET f[T \in SUBSET S] ==
            IF T = {} THEN 0
            ELSE LET i == CHOOSE x \in T : TRUE IN fn[i] + f[T \ {i}]
    IN f[S]

\* the identity an accepted sync request was applied to
CallIdent(c) ==
    Ident(IF c.user_id = "" THEN "default" ELSE c.user_id, c.date_key, c.subject,
          c.client_session_id)

Accepted(c) == c.op = "sync" /\ c.status = 200

\* C1: from one state to the next no identity loses its row and no stored
\* last_total_ms gets smaller.
C1_LastTotalNeverDecreases ==
    [][\A i \in Idents :
          /\ RowsOf(ledger, i) # {} => RowsOf(ledger', i) # {}
          /\ StoredMs(ledger', i) >= StoredMs(ledger, i)]_vars

\* a total of 0 was reported for an identity that stores 900000
C1_Witness ==
    /\ Accepted(call) /\ call.total_ms = 0
    /\ StoredMs(ledger, CallIdent(call)) = 900000

\* C2: an accepted call with total_ms on an identity that stored L (0 when it
\* had no row) returns max(total_ms - L, 0) and leaves max(L, total_ms) stored,
\* in exactly one row.
C2_DeltaAndStored ==
    [][Accepted(call') =>
          LET i == CallIdent(call')
              L == StoredMs(ledger, i)
          IN /\ call'.applied_delta_ms = Max(call'.total_ms - L, 0)
             /\ CountOf(ledger', i) = 1
             /\ StoredMs(ledger', i) = Max(L, call'.total_ms)]_vars

\* 900000 was reported on an identity that stored 600000
C2_Witness ==
    /\ Accepted(call) /\ call.total_ms = 900000 /\ call.applied_delta_ms = 300000

\* C3: whenever the reported total is at least every total reported before on
\* that identity (every call of a non-decreasing sequence on a fresh identity is
\* such a call) the deltas returned so far on the identity sum to that total;
\* and a call that repeats the total of the call just before it, on the same
\* identity, returns 0.
C3_NonDecreasingSumsToLast ==
    [][Accepted(call') =>
          LET i == CallIdent(call')
          IN /\ call'.total_ms >= hist[i].max => hist'[i].sum = call'.total_ms
             /\ (Accepted(call) /\ CallIdent(call) = i
                 /\ call.total_ms = call'.total_ms) => call'.applied_delta_ms = 0]_vars

\* 900000 was reported twice on an identity after a smaller total
C3_Witness ==
    /\ Accepted(call) /\ call.total_ms = 900000 /\ call.applied_delta_ms = 0
    /\ hist[CallIdent(call)] = [max |-> 900000, sum |-> 900000]
    /\ \E i \in Idents : i # CallIdent(call) /\ hist[i].sum = 600000

\* C4: a call whose total is at most a total reported before on the same
\* identity returns 0 and changes nothing: the table is the same, and so are
\* the day's and the week's sums of every user and day.
C4_ReplayIsNoOp ==
    [][(Accepted(call') /\ call'.total_ms <= hist[CallIdent(call')].max) =>
          /\ call'.applied_delta_ms = 0
          /\ ledger' = ledger
          /\ \A u \in Users, d \in DateKeys :
                /\ TodayMs(ledger', u, d) = TodayMs(ledger, u, d)
                /\ WeekMs(ledger', u, d) = WeekMs(ledger, u, d)]_vars

\* 600000 was reported after 900000 on the same identity
C4_Witness ==
    /\ Accepted(call) /\ call.total_ms = 600000
    /\ hist[CallIdent(call)].max = 900000
    /\ StoredMs(ledger, CallIdent(call)) = 900000

\* the highest total reported so far per identity, 0 when none was
HighestReported == [i \in Idents |-> Max(hist[i].max, 0)]

\* the sum of the deltas returned so far per identity
DeltasReturned == [i \in Idents |-> hist[i].sum]

\* C8: the response of an accepted sync carries a delta >= 0 and, as
\* server_today_total_ms, the sum over the identities of that user and date_key
\* of the highest total reported so far, this report included, which is also
\* the sum of the deltas returned so far, this one included; time_summary
\* answers the same sum.
C8_SyncTotalsAfterDelta ==
    (Accepted(call) \/ call.op = "summary") =>
        LET u == (IF call.op = "sync" THEN CallIdent(call).user_id ELSE call.user_id)
            S == {i \in Idents : i.user_id = u /\ i.date_key = call.date_key}
        IN /\ call.today_total_ms = SumOver(HighestReported, S)
           /\ call.today_total_ms = SumOver(DeltasReturned, S)
           /\ call.applied_delta_ms >= 0
           /\ Accepted(call) =>
                 /\ hist[CallIdent(call)].max >= call.total_ms
                 /\ call.applied_delta_ms <= call.total_ms

\* totals 600000, 600000, 900000 on one identity and 600000 on a second one of
\* the same day: the last sync answers 300000 and 1500000
C8_Witness ==
    /\ Accepted(call) /\ call.total_ms = 900000 /\ call.applied_delta_ms = 300000
    /\ call.today_total_ms = 1500000
    /\ hist[CallIdent(call)] = [max |-> 900000, sum |-> 900000]

\* the Monday (as an ordinal) of the week of a date key
MondayOf(date_key) == ParseDateKey(date_key) - ((ParseDateKey(date_key) + 6) % 7)

\* C9: a summary answers, as today, the sum of last_total_ms over the rows of
\* that user with that date_key and, as week, the sum over the rows of that
\* user whose day lies in [Monday of date_key's week, that Monday + 7 days).
C9_SummarySums ==
    (Accepted(call) \/ call.op = "summary") =>
        LET u == (IF call.op = "sync" THEN CallIdent(call).user_id ELSE call.user_id)
            stored == [i \in Idents |-> StoredMs(ledger, i)]
            today == {i \in Idents : i.user_id = u /\ i.date_key = call.date_key}
            week == {i \in Idents :
                        /\ i.user_id = u
                        /\ MondayOf(call.date_key) <= ParseDateKey(i.date_key)
                        /\ ParseDateKey(i.date_key) < MondayOf(call.date_key) + 7}
        IN /\ call.today_total_ms = SumOver(stored, today)
           /\ call.week_total_ms = SumOver(stored, week)

\* a summary of Sunday 2026-02-01 with rows on that day, on the Monday before
\* and, for another user, on the Monday after
C9_Witness ==
    /\ call.op = "summary" /\ call.user_id = "default" /\ call.date_key = <<2026, 2, 1>>
    /\ call.today_total_ms = 1500000 /\ call.week_total_ms = 2400000
    /\ StoredMs(ledger, Ident("u2", <<2026, 2, 2>>, "Tax", "s1")) = 600000

\* C10: a sync request with an empty subject, an empty client_session_id or a
\* negative total_ms is answered 400 or 422 and leaves the table as it was.
C10_InvalidRejectedBeforeWrite ==
    [][(call'.op = "sync"
        /\ (call'.subject = "" \/ call'.client_session_id = "" \/ call'.total_ms < 0)) =>
          /\ call'.status \in {400, 422}
          /\ ledger' = ledger]_vars

\* a negative total was rejected while the table had rows
C10_Witness ==
    /\ call.op = "sync" /\ call.total_ms < 0 /\ call.subject = "Tax"
    /\ call.client_session_id = "s1" /\ call.status = 422
    /\ BagCardinality(ledger) > 0

---------------------------------------------------------------------------
(* Two workers inside apply_study_time_total_ms at the same time           *)

\* the identities the two concurrent calls are made on
ConcIdents ==
    {Ident("default", <<2026, 2, 1>>, "Tax", "s1"),
     Ident("default", <<2026, 2, 1>>, "Audit", "s1")}

\* the tables the two calls may find: per identity no row, or one row
ConcLedgers ==
    {SetToBag({Row(i, f[i]) : i \in {j \in ConcIdents : f[j] >= 0}}) :
        f \in [ConcIdents -> TotalsMs \cup {-1}]}

InitConc ==
    /\ ledger \in ConcLedgers
    /\ ledger0 = ledger
    /\ call = NoCall
    /\ hist = [i \in Idents |-> NoHist]
    /\ pc = [w \in Procs |-> "idle"]
    /\ req = [w \in Procs |-> NoReq]
    /\ sess = [w \in Procs |-> -1]
    /\ ret = [w \in Procs |-> -1]
    /\ decreased = FALSE
    /\ OtherTablesEmpty

\* the call is made
Begin(w, ident, total_ms) ==
    /\ pc[w] = "idle"
    /\ req' = [req EXCEPT ![w] = [ident |-> ident, total_ms |-> total_ms]]
    /\ pc' = [pc EXCEPT ![w] = "query"]
    /\ UNCHANGED <<ledger, sess, ret, ledger0, decreased, seqVars, settings, dashVars, rsVars>>

\* sess = db.query(...).first(); if sess is None:
Query(w) ==
    /\ pc[w] = "query"
    /\ LET row == QueryFirst(ledger, req[w].ident)
       IN IF row = None
          THEN /\ pc' = [pc EXCEPT ![w] = "insert"]
               /\ sess' = sess
          ELSE /\ pc' = [pc EXCEPT ![w] = "update"]
               /\ sess' = [sess EXCEPT ![w] = row.last_total_ms]
    /\ UNCHANGED <<ledger, req, ret, ledger0, decreased, seqVars, settings, dashVars, rsVars>>

\* db.add(sess); db.commit(): the IntegrityError of a lost race is not caught
Insert(w) ==
    /\ pc[w] = "insert"
    /\ IF UniqueViolation(ledger, req[w].ident)
       THEN /\ pc' = [pc EXCEPT ![w] = "raised"]
            /\ ledger' = ledger
       ELSE /\ pc' = [pc EXCEPT ![w] = "refresh"]
            /\ ledger' = InsertRow(ledger, req[w].ident)
    /\ UNCHANGED <<req, sess, ret, ledger0, decreased, seqVars, settings, dashVars, rsVars>>

\* db.refresh(sess) after the insert
Refresh(w) ==
    /\ pc[w] = "refresh"
    /\ sess' = [sess EXCEPT ![w] = QueryFirst(ledger, req[w].ident).last_total_ms]
    /\ pc' = [pc EXCEPT ![w] = "update"]
    /\ UNCHANGED <<ledger, req, ret, ledger0, decreased, seqVars, settings, dashVars, rsVars>>

\* last_ms = int(sess.last_total_ms or 0) ... return int(delta_ms): the UPDATE
\* is emitted when the attribute was given a new value, and overwrites
\* whatever the row holds by then
Update(w) ==
    /\ pc[w] = "update"
    /\ LET total_ms == req[w].total_ms
           last_ms == sess[w]
           new_ms == NewLastTotalMs(total_ms, last_ms)
           row == QueryFirst(ledger, req[w].ident)
       IN /\ ret' = [ret EXCEPT ![w] = DeltaMs(total_ms, last_ms)]
          /\ IF new_ms # last_ms
             THEN /\ ledger' = UpdateRow(ledger, row, new_ms)
                  /\ decreased' = (decreased \/ new_ms < row.last_total_ms)
             ELSE UNCHANGED <<ledger, decreased>>
    /\ pc' = [pc EXCEPT ![w] = "done"]
    /\ UNCHANGED <<req, sess, ledger0, seqVars, settings, dashVars, rsVars>>

NextConc ==
    \/ \E w \in Procs, i \in ConcIdents, t \in TotalsMs : Begin(w, i, t)
    \/ \E w \in Procs : Query(w)
    \/ \E w \in Procs : Insert(w)
    \/ \E w \in Procs : Refresh(w)
    \/ \E w \in Procs : Update(w)

SpecConc == InitConc /\ [][NextConc]_vars

Finished(w) == pc[w] \in {"done", "raised"}

\* C5: two calls with totals a and b on one identity that had a row storing L
\* leave max(L, a, b) stored, never lower the stored value on the way, and
\* return deltas that sum to max(L, a, b) - L.
C5_NoLostUpdate ==
    (pc[1] = "done" /\ pc[2] = "done" /\ req[1].ident = req[2].ident
     /\ RowsOf(ledger0, req[1].ident) # {}) =>
        LET L == StoredMs(ledger0, req[1].ident)
            M == Max(L, Max(req[1].total_ms, req[2].total_ms))
        IN /\ StoredMs(ledger, req[1].ident) = M
           /\ ~decreased
           /\ ret[1] + ret[2] = M - L

\* C6: when two first calls for one identity that has no row race, both end
\* with a delta: the one that loses the insert re-reads the row and goes on.
C6_IdentityRaceRetried ==
    (Finished(1) /\ Finished(2) /\ req[1].ident = req[2].ident
     /\ RowsOf(ledger0, req[1].ident) = {}) =>
        \A w \in Procs : pc[w] = "done" /\ ret[w] >= 0

\* C7: no identity has more than one row.
C7_OneRowPerIdentity ==
    \A r \in BagToSet(ledger) : CountOf(ledger, IdentOf(r)) <= 1

\* two first calls for one identity raced, and the one that lost the insert
\* was refused by the constraint
C7_Witness ==
    /\ req[1].ident = req[2].ident
    /\ RowsOf(ledger0, req[1].ident) = {}
    /\ pc[1] = "raised" /\ pc[2] = "done"
    /\ CountOf(ledger, req[1].ident) = 1


---------------------------------------------------------------------------
(* Table settings: values                                                  *)
(*                                                                         *)
(* A settings value is a text. A text that is a JSON document is modelled  *)
(* by the JSON value json.loads makes of it, tagged with its type; any     *)
(* other text by Text(the text), on which json.loads raises.  A JSON       *)
(* object is a record of JSON values.                                      *)

JNull == [t |-> "null"]
JBool(b) == [t |-> "bool", v |-> b]
JInt(n) == [t |-> "int", v |-> n]
JStr(s) == [t |-> "str", v |-> s]
JList(seq) == [t |-> "list", v |-> seq]
JDict(f) == [t |-> "dict", v |-> f]
Text(s) == [t |-> "text", v |-> s]

Some(x) == [none |-> FALSE, v |-> x]

Range(seq) == {seq[i] : i \in DOMAIN seq}

\* str.strip() on the strings of the model
Strip(s) ==
    CASE s = " " -> ""
      [] s = " Tax " -> "Tax"
      [] s = " yes " -> "yes"
      [] s = " N " -> "N"
      [] OTHER -> s

\* dict.get(key, default) on a JSON object
JGet(d, key, default) == IF key \in DOMAIN d.v THEN d.v[key] ELSE default

\* json.loads(value): Some(the JSON value), or None when it raises
JsonLoads(value) == IF value.t = "text" THEN None ELSE Some(value)

\* _get_visible_subject_names_from_settings: Some(names) or None
GetVisibleSubjectNames(sets) ==
    LET s == sets["subjects"]
    IN IF s = None \/ (s.t = "text" /\ Strip(s.v) = "") THEN None
       ELSE IF JsonLoads(s) = None THEN None
       ELSE IF JsonLoads(s).v.t # "list" THEN None
       ELSE LET kept == SelectSeq(JsonLoads(s).v.v, LAMBDA item :
                            /\ item.t = "dict"
                            /\ JGet(item, "name", JNull).t = "str"
                            /\ ~(/\ JGet(item, "visible", JBool(TRUE)).t = "bool"
                                 /\ JGet(item, "visible", JBool(TRUE)).v = FALSE))
            IN Some([i \in 1..Len(kept) |-> kept[i].v["name"].v])

\* the subject names of the model in the order sorted() gives them (code points)
SubjectsSorted == <<"Audit", "Law", "Tax">>

\* sorted(S) for a set of subject names
Sorted(S) == SelectSeq(SubjectsSorted, LAMBDA x : x \in S)

\* the keys of a dict built by inserting the elements of seq in order
DictKeys(seq) ==
    LET first == {i \in DOMAIN seq : \A j \in 1..(i - 1) : seq[j] # seq[i]}
        f[i \in 0..Len(seq)] ==
            IF i = 0 THEN <<>>
            ELSE IF i \in first THEN Append(f[i - 1], seq[i]) ELSE f[i - 1]
    IN f[Len(seq)]

DictGet(d, k, default) == IF k \in DOMAIN d THEN d[k] ELSE default


---------------------------------------------------------------------------
(* Per-subject summary (GET /api/summary)                                  *)
(*                                                                         *)
(* An hours value h is a float, total_ms / 3_600_000.0.  It is modelled by *)
(* the integer total_ms it was made from: the division is one-to-one and   *)
(* order-preserving on totals that a double holds exactly, and no claim    *)
(* checked here adds two hours values.  An average is the pair of the sum  *)
(* and the number of the averaged values.                                  *)

\* the topic of a study-time row (the Japanese literal of crud.py, line 170)
StudyTimeTopic == "study-time"

Num(x) == [none |-> FALSE, v |-> x]

ProgressRow(id, subject, topic, percent, hours) ==
    [id |-> id, subject |-> subject, topic |-> topic,
     progress_percent |-> percent, study_hours |-> hours]

\* position of a subject name among the sorted names
SubjectRank(name) == CHOOSE i \in DOMAIN SubjectsSorted : SubjectsSorted[i] = name

\* VIEW study_progress: the legacy rows that are not study-time rows, and one
\* study-time row per (subject, date_key) of user 'default' in the ledger,
\* numbered -1, -2, ... in the order of (subject, date_key)
StudyProgressView(legacy, led) ==
    LET sts == {r \in BagToSet(led) : r.user_id = "default"}
        groups == {<<r.subject, r.date_key>> : r \in sts}
        Before(g, h) ==
            \/ SubjectRank(g[1]) < SubjectRank(h[1])
            \/ g[1] = h[1] /\ KeyLess(g[2], h[2])
        RowNumber(g) == 1 + Cardinality({h \in groups : Before(h, g)})
    IN {r \in legacy : r.topic # StudyTimeTopic}
       \cup {ProgressRow(0 - RowNumber(g), g[1], StudyTimeTopic, None,
                         Num(SumLastTotalMs(led, {r \in sts : r.subject = g[1] /\ r.date_key = g[2]})))
             : g \in groups}

ProgressRows_AllTopics(view) == view

\* the rows get_subjects_summary aggregates for count and avg_progress
ProgressRows(view) == {r \in view : r.topic # StudyTimeTopic}

\* func.avg over the rows of S: NULL values are left out, no value gives NULL
AvgProgress(S) ==
    LET vals == {r \in S : r.progress_percent # None}
        f[T \in SUBSET vals] ==
            IF T = {} THEN 0
            ELSE LET r == CHOOSE x \in T : TRUE IN r.progress_percent.v + f[T \ {r}]
    IN IF vals = {} THEN None ELSE [none |-> FALSE, sum |-> f[vals], n |-> Cardinality(vals)]

\* float(avg or 0.0)
AvgOrZero(avg) == IF avg = None THEN [sum |-> 0, n |-> 1] ELSE [sum |-> avg.sum, n |-> avg.n]

\* the rows get_subjects_summary aggregates for total_hours
TimeRows(led, user_id) == {r \in BagToSet(led) : r.user_id = user_id}

\* crud.get_subjects_summary
GetSubjectsSummary(led, legacy, user_id) ==
    LET progress_rows == ProgressRows(StudyProgressView(legacy, led))
        time_rows == TimeRows(led, user_id)
        progress_subjects == {r.subject : r \in progress_rows}
        time_subjects == {r.subject : r \in time_rows}
        subjects == Sorted(progress_subjects \cup time_subjects)
        Entry(subject) ==
            LET rows == {r \in progress_rows : r.subject = subject}
            IN [subject |-> subject,
                count |-> Cardinality(rows),
                total_hours |-> SumLastTotalMs(led, {r \in time_rows : r.subject = subject}),
                avg_progress |-> IF subject \in progress_subjects
                                 THEN AvgOrZero(AvgProgress(rows))
                                 ELSE [sum |-> 0, n |-> 1]]
    IN [i \in 1..Len(subjects) |-> Entry(subjects[i])]


---------------------------------------------------------------------------
(* Dashboard summary (crud.get_dashboard_summary)                          *)

RowsInRange_AfterStart(led, user_id, lo, hi) ==
    {r \in BagToSet(led) :
        r.user_id = user_id /\ KeyLess(lo, r.date_key) /\ KeyLess(r.date_key, hi)}

\* .filter(user_id == user_id).filter(date_key >= lo).filter(date_key < hi)
RowsInRange(led, user_id, lo, hi) ==
    {r \in BagToSet(led) :
        r.user_id = user_id /\ ~KeyLess(r.date_key, lo) /\ KeyLess(r.date_key, hi)}

\* GROUP BY date_key with SUM(last_total_ms), as the dict date_key -> hours
HoursByDate(led, rows) ==
    [k \in {r.date_key : r \in rows} |->
        SumLastTotalMs(led, {r \in rows : r.date_key = k})]

\* week_start = base_day - timedelta(days=base_day.weekday()), as an ordinal
WeekStartOrd(base_key) == ParseDateKey(base_key) - Weekday(ParseDateKey(base_key))

DayKey_FromSunday(week_start, i) == Isoformat(week_start + i - 1)

\* (week_start + timedelta(days=i)).isoformat() for the i-th pass of range(7),
\* passes counted from 1
DayKey(week_start, i) == Isoformat(week_start + i)

\* week_hours_by_date
WeekHoursByDate(led, user_id, base_key) ==
    HoursByDate(led, RowsInRange(led, user_id, Isoformat(WeekStartOrd(base_key)),
                                 Isoformat(WeekStartOrd(base_key) + 7)))

\* week_daily, from week_hours_by_date
WeekDaily(week_hours_by_date, week_start) ==
    [i \in 1..7 |->
        LET k == DayKey(week_start, i - 1)
        IN [date_key |-> k, hours |-> DictGet(week_hours_by_date, k, 0)]]

\* today_hours, from week_hours_by_date
TodayHours(week_hours_by_date, base_key) == DictGet(week_hours_by_date, base_key, 0)

\* sum(d["hours"] for d in week_daily)
WeekHours(week_daily) ==
    LET f[i \in 0..Len(week_daily)] ==
            IF i = 0 THEN 0 ELSE f[i - 1] + week_daily[i].hours
    IN f[Len(week_daily)]

SubjectOrder_AlwaysSorted(visible, subjects_in_week) == Sorted(subjects_in_week)

\* subject_order
SubjectOrder(visible, subjects_in_week) ==
    IF visible = None THEN Sorted(subjects_in_week) ELSE visible.v

\* week_daily_by_subject; a dict is the pair of its keys in insertion order
\* and its values
WeekDailyBySubject(led, sets, user_id, base_key) ==
    LET visible == GetVisibleSubjectNames(sets)
        rows == RowsInRange(led, user_id, Isoformat(WeekStartOrd(base_key)),
                            Isoformat(WeekStartOrd(base_key) + 7))
        kept == IF visible = None THEN rows
                ELSE {r \in rows : r.subject \in Range(visible.v)}
        subjects_in_week == {r.subject : r \in kept}
        subject_order == SubjectOrder(visible, subjects_in_week)
        keys == DictKeys(subject_order)
        week_start == WeekStartOrd(base_key)
        m(dk, name) == SumLastTotalMs(led, {r \in kept : r.date_key = dk /\ r.subject = name})
    IN [i \in 1..7 |->
          LET dk == DayKey(week_start, i - 1)
          IN [date_key |-> dk,
              subjects |-> [keys |-> keys,
                            hours |-> [name \in Range(keys) |-> m(dk, name)]]]]

\* if streak_days < 1: streak_days = 1
StreakDays(streak_days) == IF streak_days < 1 THEN 1 ELSE streak_days

\* streak_start, as an ordinal
StreakStart(base_key, streak_days) == ParseDateKey(base_key) - (StreakDays(streak_days) - 1)

StreakHoursByDate(led, user_id, base_key, streak_days) ==
    HoursByDate(led, RowsInRange(led, user_id, Isoformat(StreakStart(base_key, streak_days)),
                                 Isoformat(ParseDateKey(base_key) + 1)))

CurrentStreak_SkipsGaps(by, base_day, streak_start) ==
    Cardinality({d \in streak_start..base_day : DictGet(by, Isoformat(d), 0) > 0})

\* the loop "while cur >= streak_start" from cur = base_day
CurrentStreak(by, base_day, streak_start) ==
    LET f[cur \in (streak_start - 1)..base_day] ==
            IF cur >= streak_start /\ DictGet(by, Isoformat(cur), 0) > 0
            THEN 1 + f[cur - 1]
            ELSE 0
    IN f[base_day]

LongestStreak_FirstRun(by, base_day, streak_start) ==
    LET run[d \in streak_start..(base_day + 1)] ==
            IF d > base_day THEN 0
            ELSE IF DictGet(by, Isoformat(d), 0) > 0 THEN 1 + run[d + 1] ELSE 0
    IN run[streak_start]

LongestStreak_LastRun(by, base_day, streak_start) ==
    LET run[d \in (streak_start - 1)..base_day] ==
            IF d < streak_start THEN 0
            ELSE IF DictGet(by, Isoformat(d), 0) > 0 THEN run[d - 1] + 1 ELSE 0
    IN run[base_day]

\* the loop "while d <= base_day" from d = streak_start: st[d] is (run, longest)
\* after the pass for day d
LongestStreak(by, base_day, streak_start) ==
    LET st[d \in (streak_start - 1)..base_day] ==
            IF d < streak_start THEN [run |-> 0, longest |-> 0]
            ELSE IF DictGet(by, Isoformat(d), 0) > 0
                 THEN [run |-> st[d - 1].run + 1,
                       longest |-> Max(st[d - 1].longest, st[d - 1].run + 1)]
                 ELSE [run |-> 0, longest |-> st[d - 1].longest]
    IN st[base_day].longest

\* crud.get_dashboard_summary with base_key = date_key or _jst_today_date_key()
DashboardSummary(led, sets, legacy, user_id, base_key, streak_days) ==
    LET by == StreakHoursByDate(led, user_id, base_key, streak_days)
        base_day == ParseDateKey(base_key)
        streak_start == StreakStart(base_key, streak_days)
        window == [i \in 1..(base_day - streak_start + 1) |-> Isoformat(streak_start + i - 1)]
        week_hours_by_date == WeekHoursByDate(led, user_id, base_key)
        week_daily == WeekDaily(week_hours_by_date, WeekStartOrd(base_key))
    IN [user_id |-> user_id,
        date_key |-> base_key,
        today_hours |-> TodayHours(week_hours_by_date, base_key),
        week_hours |-> WeekHours(week_daily),
        week_daily |-> week_daily,
        week_daily_by_subject |-> WeekDailyBySubject(led, sets, user_id, base_key),
        streak |-> [current |-> CurrentStreak(by, base_day, streak_start),
                    longest |-> LongestStreak(by, base_day, streak_start),
                    active_dates |-> SelectSeq(window, LAMBDA k : DictGet(by, k, 0) > 0),
                    active_hours_by_date |-> [k \in {x \in DOMAIN by : by[x] > 0} |-> by[k]]],
        subjects |-> GetSubjectsSummary(led, legacy, user_id)]


\* _jst_today_date_key at the UTC instant (day utc_day as an ordinal, hour utc_hour)
JstTodayDateKey(utc_day, utc_hour) == Isoformat(utc_day + ((utc_hour + 9) \div 24))

---------------------------------------------------------------------------
(* SpecDash: get_dashboard_summary on a database holding a ledger and a    *)
(* `subjects` setting                                                      *)

\* Fri 2026-01-30, Sat 2026-01-31, Sun 2026-02-01 (one week), Mon 2026-02-02
D0 == <<2026, 1, 30>>
D1 == <<2026, 1, 31>>
D2 == <<2026, 2, 1>>
D3 == <<2026, 2, 2>>

\* the longest streak window asked for
MaxStreakDays == 4

DashIdents ==
    {Ident("default", D0, "Tax", "s1"),
     Ident("default", D1, "Tax", "s1"),
     Ident("default", D2, "Tax", "s1"),
     Ident("default", D2, "Audit", "s1"),
     Ident("default", D3, "Tax", "s1"),
     Ident("u2", D3, "Tax", "s1")}

\* a row holds 5400000 ms (1.5 h); the row of Sat 2026-01-31 may also hold 0 ms
DashTotals(i) == IF i.date_key = D1 THEN {0, 5400000} ELSE {5400000}

\* the ledgers: every choice of which identities have a row, and of its total
DashLedgers ==
    {SetToBag({Row(i, f[i]) : i \in {j \in DashIdents : f[j] >= 0}}) :
        f \in {g \in [DashIdents -> {-1, 0, 5400000}] :
                  \A i \in DashIdents : g[i] \in {-1} \cup DashTotals(i)}}

\* the values of settings['subjects']: no row, a blank text, a text that is
\* not JSON, a JSON object, an empty list, a list of well-formed entries, and
\* a list with a string, a numeric name, an entry without `visible`, an entry
\* whose `visible` is 0 and a repeated name
SubjectsSettings ==
    <<None,
      Text(" "),
      Text("{oops"),
      JDict([name |-> JStr("Tax")]),
      JList(<<>>),
      JList(<<JDict([name |-> JStr("Tax"), visible |-> JBool(TRUE)]),
              JDict([name |-> JStr("Law"), visible |-> JBool(TRUE)]),
              JDict([name |-> JStr("Audit"), visible |-> JBool(FALSE)])>>),
      JList(<<JStr("Tax"),
              JDict([name |-> JInt(5)]),
              JDict([name |-> JStr("Audit")]),
              JDict([name |-> JStr("Law"), visible |-> JInt(0)]),
              JDict([name |-> JStr("Audit"), visible |-> JBool(TRUE)])>>)>>

\* the database of the other specifications, idle
LedgerIdle ==
    /\ call = NoCall
    /\ hist = [i \in Idents |-> NoHist]
    /\ pc = [w \in Procs |-> "idle"]
    /\ req = [w \in Procs |-> NoReq]
    /\ sess = [w \in Procs |-> -1]
    /\ ret = [w \in Procs |-> -1]
    /\ ledger0 = EmptyBag
    /\ decreased = FALSE

ReviewSetsIdle ==
    /\ tables_ready = FALSE
    /\ lists = {}
    /\ items = {}
    /\ todos = {}
    /\ seqs = NoSeqs
    /\ rs = NoRs

\* the ledgers with rows on the Sunday and the Monday only
WeekendLedgers == {l \in DashLedgers : \A r \in BagToSet(l) : r.date_key \in {D2, D3}}

\* without a `subjects` row every ledger, with one the ledgers of the weekend
InitDash ==
    /\ \E i \in DOMAIN SubjectsSettings :
          /\ settings = [NoSettings EXCEPT !["subjects"] = SubjectsSettings[i]]
          /\ ledger \in (IF i = 1 THEN DashLedgers ELSE WeekendLedgers)
    /\ progress = {}
    /\ dash = NoDash
    /\ summary = NoSummary
    /\ LedgerIdle
    /\ ReviewSetsIdle

\* get_dashboard_summary(db, user_id, date_key, streak_days); date_key is
\* Some(key) or None, and the call is made at hour utc_hour of Sun 2026-02-01 (UTC)
GetDashboardSummary(user_id, date_key, streak_days, utc_hour) ==
    LET base_key == IF date_key = None
                    THEN JstTodayDateKey(ParseDateKey(D2), utc_hour)
                    ELSE date_key.v
    IN /\ dash' = [op |-> "dashboard",
                   streak_days |-> streak_days,
                   res |-> DashboardSummary(ledger, settings, progress, user_id,
                                            base_key, streak_days)]
       /\ UNCHANGED <<ledger, seqVars, concVars, settings, progress, summary, rsVars>>

\* the calls made: user 'default' on the Sunday, on the Monday and without a
\* date_key (before and after 15:00 UTC); user 'u2' on the Monday
DashCalls ==
    {<<"default", Some(D2), 0>>, <<"default", Some(D3), 0>>,
     <<"default", None, 14>>, <<"default", None, 15>>,
     <<"u2", Some(D3), 0>>}

NextDash ==
    \E c \in DashCalls, n \in 0..MaxStreakDays : GetDashboardSummary(c[1], c[2], n, c[3])

SpecDash == InitDash /\ [][NextDash]_vars


---------------------------------------------------------------------------
(* Properties of the dashboard summary                                     *)

Answered == dash.op = "dashboard"

\* the user's rows of the day with ordinal ord
RowsOfDay(user_id, ord) ==
    {r \in BagToSet(ledger) : r.user_id = user_id /\ ParseDateKey(r.date_key) = ord}

\* C11: dashboard_summary's today_hours is summary_ms's today_ms of the same user
\* and date_key (as hours): the two read paths agree about today's total
C11_TodayAgrees ==
    Answered => dash.res.today_hours = TodayMs(ledger, dash.res.user_id, dash.res.date_key)

\* a Monday on which the user has a row, and a Sunday with two subjects' rows
C11_Witness ==
    /\ Answered
    /\ dash.res.date_key = D3
    /\ dash.res.today_hours = 5400000
    /\ \E r \in BagToSet(ledger) : r.user_id = "default" /\ r.date_key = D2

\* C12: week_daily has 7 entries, the days Monday..Sunday of date_key's week in
\* order, each with the user's ledger total of that day, 0 for a day without rows
C12_WeekDaily ==
    Answered =>
        LET wd == dash.res.week_daily
            day(i) == ParseDateKey(wd[i].date_key)
        IN /\ Len(wd) = 7
           /\ \A i \in 1..7 : Weekday(day(i)) = i - 1
           /\ \A i \in 1..6 : day(i + 1) = day(i) + 1
           /\ \E i \in 1..7 : wd[i].date_key = dash.res.date_key
           /\ \A i \in 1..7 :
                 wd[i].hours = SumLastTotalMs(ledger, RowsOfDay(dash.res.user_id, day(i)))

\* the week Mon 2026-01-26 .. Sun 2026-02-01 with rows on its Friday and Sunday
\* and none on its Saturday
C12_Witness ==
    /\ Answered
    /\ dash.res.week_daily[1].date_key = <<2026, 1, 26>>
    /\ dash.res.week_daily[7].date_key = D2
    /\ dash.res.week_daily[5].hours = 5400000
    /\ dash.res.week_daily[6].hours = 0
    /\ dash.res.week_daily[7].hours = 10800000
    /\ RowsOfDay("default", ParseDateKey(D1)) = {}


\* the entries of a JSON list that name a subject to show: objects with a
\* string name whose `visible` is not false
ShownEntry(item) ==
    /\ item.t = "dict"
    /\ "name" \in DOMAIN item.v
    /\ item.v["name"].t = "str"
    /\ ~("visible" \in DOMAIN item.v /\ item.v["visible"] = JBool(FALSE))

\* their names in listed order, a repeated name at its first place only
NamesShown(v) ==
    LET FirstShown(i) ==
            /\ ShownEntry(v.v[i])
            /\ \A j \in 1..(i - 1) : ShownEntry(v.v[j]) => v.v[j].v["name"] # v.v[i].v["name"]
        f[i \in 0..Len(v.v)] ==
            IF i = 0 THEN <<>>
            ELSE IF FirstShown(i) THEN Append(f[i - 1], v.v[i].v["name"].v) ELSE f[i - 1]
    IN f[Len(v.v)]

\* the subjects of the user's rows in the week returned
ObservedInWeek ==
    {r.subject : r \in UNION {RowsOfDay(dash.res.user_id,
                                        ParseDateKey(dash.res.week_daily[i].date_key))
                              : i \in 1..7}}

\* keys are the elements of S, each once, in code-point order
IsSortedListOf(keys, S) ==
    /\ Range(keys) = S
    /\ \A i, j \in DOMAIN keys : i < j => SubjectRank(keys[i]) < SubjectRank(keys[j])

\* every day of week_daily_by_subject maps the subjects of keys, in that order,
\* each to the user's ledger total of that day and subject
EveryDayMaps(keys) ==
    LET wds == dash.res.week_daily_by_subject
    IN /\ Len(wds) = 7
       /\ \A i \in 1..7 :
             /\ wds[i].date_key = dash.res.week_daily[i].date_key
             /\ wds[i].subjects.keys = keys
             /\ DOMAIN wds[i].subjects.hours = Range(keys)
             /\ \A name \in Range(keys) :
                   wds[i].subjects.hours[name] =
                       SumLastTotalMs(ledger,
                           {r \in RowsOfDay(dash.res.user_id, ParseDateKey(wds[i].date_key)) :
                               r.subject = name})

\* C13 as stated: with a `subjects` row every day maps exactly the subjects the
\* row marks visible, in listed order; without one exactly the week's subjects, sorted
C13_PresentSettingDecides ==
    Answered =>
        LET v == settings["subjects"]
        IN IF v # None
           THEN EveryDayMaps(IF v.t = "list" THEN NamesShown(v) ELSE <<>>)
           ELSE \E keys \in {dash.res.week_daily_by_subject[1].subjects.keys} :
                   IsSortedListOf(keys, ObservedInWeek) /\ EveryDayMaps(keys)

\* C13 (amended): when the `subjects` value is a JSON list every day maps exactly
\* the names of its entries not marked hidden, in listed order, subjects without
\* rows with 0 and other ledger subjects left out; when there is no row, or the
\* value is blank, not JSON or not a list, every day maps exactly the subjects
\* of the week's ledger rows, sorted
C13_ListSettingDecides ==
    Answered =>
        LET v == settings["subjects"]
        IN IF v # None /\ v.t = "list"
           THEN EveryDayMaps(NamesShown(v))
           ELSE \E keys \in {dash.res.week_daily_by_subject[1].subjects.keys} :
                   IsSortedListOf(keys, ObservedInWeek) /\ EveryDayMaps(keys)

\* the setting shows Tax then Law and hides Audit; the Sunday has rows of Tax
\* and of Audit
C13_Witness ==
    /\ Answered
    /\ settings["subjects"] = SubjectsSettings[6]
    /\ dash.res.date_key = D2
    /\ dash.res.week_daily_by_subject[7].subjects.keys = <<"Tax", "Law">>
    /\ dash.res.week_daily_by_subject[7].subjects.hours["Tax"] = 5400000
    /\ dash.res.week_daily_by_subject[7].subjects.hours["Law"] = 0
    /\ \E r \in BagToSet(ledger) : r.date_key = D2 /\ r.subject = "Audit" /\ r.user_id = "default"

\* the user has a row with a positive total on the day with ordinal ord
ActiveDay(user_id, ord) == \E r \in RowsOfDay(user_id, ord) : r.last_total_ms > 0

\* the streak window: its length (at least 1), its last and its first day
WindowLen == Max(dash.streak_days, 1)
WindowEnd == ParseDateKey(dash.res.date_key)
WindowStart == WindowEnd - WindowLen + 1

\* the activity {d0: 1, d1: 0, d2: 1, d3: 1} asked about at d3 over 4 days
StreakExample ==
    /\ Answered
    /\ dash.res.user_id = "default" /\ dash.res.date_key = D3 /\ dash.streak_days = 4
    /\ ActiveDay("default", ParseDateKey(D0))
    /\ ~ActiveDay("default", ParseDateKey(D1))
    /\ ActiveDay("default", ParseDateKey(D2))
    /\ ActiveDay("default", ParseDateKey(D3))

\* C14: `current` is the number of consecutive active days counted backward from
\* date_key, stopping at the first inactive day or at the start of the window;
\* 0 when date_key is inactive; 2 in the example
C14_CurrentStreak ==
    Answered =>
        LET c == dash.res.streak.current
        IN /\ c \in 0..WindowLen
           /\ \A k \in 0..(c - 1) : ActiveDay(dash.res.user_id, WindowEnd - k)
           /\ c = WindowLen \/ ~ActiveDay(dash.res.user_id, WindowEnd - c)
           /\ StreakExample => c = 2

\* the example, its inactive day holding a row of 0 ms
C14_Witness ==
    /\ StreakExample
    /\ dash.res.streak.current = 2
    /\ RowsOfDay("default", ParseDateKey(D1)) # {}

\* the window has len consecutive active days
HasRun(len) ==
    \E s \in WindowStart..(WindowEnd - len + 1) :
        \A d \in s..(s + len - 1) : ActiveDay(dash.res.user_id, d)

\* C15: `longest` is the length of the longest run of consecutive active days in
\* the window of streak_days days ending at date_key; 2 in the example
C15_LongestStreak ==
    Answered =>
        LET l == dash.res.streak.longest
        IN /\ l \in 0..WindowLen
           /\ HasRun(l)
           /\ l < WindowLen => ~HasRun(l + 1)
           /\ StreakExample => l = 2

\* a window of 2 days that leaves an active Friday and Saturday out: the run
\* of 3 days ending on the Sunday counts 2 there and 3 in a window of 3 days
C15_Witness ==
    /\ Answered
    /\ dash.res.date_key = D2 /\ dash.res.user_id = "default" /\ dash.streak_days = 2
    /\ dash.res.streak.longest = 2
    /\ \A d \in {D0, D1, D2} : ActiveDay("default", ParseDateKey(d))


---------------------------------------------------------------------------
(* SpecSummary: get_subjects_summary on a database holding a ledger and    *)
(* legacy progress rows                                                    *)

\* rows of study_progress_legacy: two percent-bearing rows of Tax, a row of Law
\* without a percent, and a study-time row of Tax written before the ledger
\* existed (study_hours in ms, as every hours value)
LegacyRows ==
    {ProgressRow(1, "Tax", "ch1", Num(50), Num(7200000)),
     ProgressRow(2, "Tax", "ch2", Num(100), Num(0)),
     ProgressRow(3, "Law", "ch1", None, Num(3600000)),
     ProgressRow(4, "Tax", StudyTimeTopic, Num(0), Num(18000000))}

InitSummary ==
    /\ ledger \in WeekendLedgers
    /\ progress \in SUBSET LegacyRows
    /\ settings = NoSettings
    /\ dash = NoDash
    /\ summary = NoSummary
    /\ LedgerIdle
    /\ ReviewSetsIdle

\* get_subjects_summary(db, user_id)
GetSummary(user_id) ==
    /\ summary' = [op |-> "subjects", user_id |-> user_id,
                   res |-> GetSubjectsSummary(ledger, progress, user_id)]
    /\ UNCHANGED <<ledger, seqVars, concVars, settings, progress, dash, rsVars>>

NextSummary == \E u \in Users : GetSummary(u)

SpecSummary == InitSummary /\ [][NextSummary]_vars

\* the legacy rows of a subject that bear a progress
PercentRows(subject) ==
    {r \in progress : r.subject = subject /\ r.topic # StudyTimeTopic}

\* the sum of the percents of the rows of S that have one
PercentSum(S) ==
    LET f[T \in SUBSET S] ==
            IF T = {} THEN 0
            ELSE LET r == CHOOSE x \in T : TRUE
                 IN (IF r.progress_percent = None THEN 0 ELSE r.progress_percent.v)
                    + f[T \ {r}]
    IN f[S]

\* C16: per subject, total_hours is the sum of the user's ledger rows of the
\* subject whatever the legacy rows are; count and avg_progress are those of the
\* legacy rows whose topic is not the study-time topic whatever the ledger is;
\* the subjects are the union of both
C16_SubjectsSummary ==
    summary.op = "subjects" =>
        LET res == summary.res
            mine == {r \in BagToSet(ledger) : r.user_id = summary.user_id}
        IN /\ {res[i].subject : i \in DOMAIN res}
                = {r.subject : r \in mine}
                  \cup {r.subject : r \in {x \in progress : x.topic # StudyTimeTopic}}
           /\ \A i, j \in DOMAIN res : res[i].subject = res[j].subject => i = j
           /\ \A i \in DOMAIN res :
                 LET e == res[i]
                     withPercent == {r \in PercentRows(e.subject) : r.progress_percent # None}
                 IN /\ e.total_hours = SumLastTotalMs(ledger, {r \in mine : r.subject = e.subject})
                    /\ e.count = Cardinality(PercentRows(e.subject))
                    /\ e.avg_progress.sum * Max(Cardinality(withPercent), 1)
                          = PercentSum(withPercent) * e.avg_progress.n

\* Audit is in the ledger only, Law in the legacy rows only, Tax in both, next
\* to a legacy study-time row of Tax
C16_Witness ==
    /\ summary.op = "subjects"
    /\ summary.user_id = "default"
    /\ progress = LegacyRows
    /\ Len(summary.res) = 3
    /\ summary.res[1] = [subject |-> "Audit", count |-> 0, total_hours |-> 5400000,
                         avg_progress |-> [sum |-> 0, n |-> 1]]
    /\ summary.res[2].count = 1 /\ summary.res[2].total_hours = 0
    /\ summary.res[3].count = 2 /\ summary.res[3].total_hours = 10800000
    /\ summary.res[3].avg_progress = [sum |-> 150, n |-> 2]


---------------------------------------------------------------------------
(* Review set lists: settings flag and seeding from settings.review_timing *)
(*                                                                         *)
(* A name is the sequence of the pieces it is concatenated from.           *)

JFloat(num, den) == [t |-> "float", num |-> num, den |-> den]

\* str.lower() on the strings of the model
Lower(s) ==
    CASE s \in {"TRUE", "True"} -> "true"
      [] s \in {"YES", "Yes"} -> "yes"
      [] s = "Y" -> "y"
      [] s = "T" -> "t"
      [] s \in {"FALSE", "False"} -> "false"
      [] s \in {"NO", "No"} -> "no"
      [] s = "N" -> "n"
      [] s = "F" -> "f"
      [] OTHER -> s

GetBoolSetting_CaseSensitive(sets, key, default) ==
    LET s == sets[key]
    IN IF s = None THEN default
       ELSE IF s.t = "text" /\ Strip(s.v) = "" THEN default
       ELSE IF s.t = "bool" THEN s.v
       ELSE IF s.t = "int" /\ s.v = 1 THEN TRUE
       ELSE IF s.t = "int" /\ s.v = 0 THEN FALSE
       ELSE IF s.t = "text" /\ Strip(s.v) \in {"true", "1", "yes", "y", "t"} THEN TRUE
       ELSE IF s.t = "text" /\ Strip(s.v) \in {"false", "0", "no", "n", "f"} THEN FALSE
       ELSE default

\* _get_bool_setting(db, key, default); the text of the JSON number 1 is "1",
\* that of 0 is "0"
GetBoolSetting(sets, key, default) ==
    LET s == sets[key]
    IN IF s = None THEN default
       ELSE IF s.t = "text" /\ Strip(s.v) = "" THEN default
       ELSE IF s.t = "bool" THEN s.v
       ELSE IF s.t = "int" /\ s.v = 1 THEN TRUE
       ELSE IF s.t = "int" /\ s.v = 0 THEN FALSE
       ELSE IF s.t = "text" /\ Lower(Strip(s.v)) \in {"true", "1", "yes", "y", "t"} THEN TRUE
       ELSE IF s.t = "text" /\ Lower(Strip(s.v)) \in {"false", "0", "no", "n", "f"} THEN FALSE
       ELSE default

FalseText_Quoted == JStr("false")

FalseText_True == JBool(TRUE)

\* the text create_or_update_setting(db, "use_legacy_review_sets", "false") stores
FalseText == JBool(FALSE)

\* create_or_update_setting(db, key, value)
CreateOrUpdateSetting(sets, key, value) == [sets EXCEPT ![key] = value]

\* the suffix of a seeded list's name (the literal of crud.py, line 762)
LegacySuffix == "(legacy)"

ReviewSetListRow(id, name) == [id |-> id, name |-> name]

ReviewSetItemRow(id, set_list_id, offset_days) ==
    [id |-> id, set_list_id |-> set_list_id, offset_days |-> offset_days]

\* a JSON value that Python's `or` replaces by its right operand
Falsy(v) ==
    \/ v.t = "null"
    \/ v.t = "bool" /\ v.v = FALSE
    \/ v.t = "int" /\ v.v = 0
    \/ v.t = "str" /\ v.v = ""
    \/ v.t = "list" /\ Len(v.v) = 0

\* int(s) for the strings of the model: Some(n), or None when it raises
IntOfStr(s) ==
    CASE s = "3" -> Some(3)
      [] OTHER -> None

IntOf_IntegersOnly(day) == IF day.t = "int" THEN Some(day.v) ELSE None

\* int(day) for a JSON value: Some(n), or None when it raises
IntOf(day) ==
    CASE day.t = "int" -> Some(day.v)
      [] day.t = "bool" -> Some(IF day.v THEN 1 ELSE 0)
      [] day.t = "float" -> Some(IF day.num >= 0 THEN day.num \div day.den
                                 ELSE 0 - ((0 - day.num) \div day.den))
      [] day.t = "str" -> IntOfStr(day.v)
      [] OTHER -> None

\* str(timing.get("subject_name") or "").strip(); the names of the model are
\* strings, null or missing, and str() of a string is the string
SubjectNameOf(timing) ==
    LET v == JGet(timing, "subject_name", JNull)
    IN IF Falsy(v) THEN "" ELSE Strip(v.v)

\* timing.get("review_days") or []
ReviewDaysOf(timing) ==
    LET v == JGet(timing, "review_days", JNull)
    IN IF Falsy(v) THEN JList(<<>>) ELSE v

\* the entries of review_timing the loop does not skip
SeedsList(timing) ==
    /\ timing.t = "dict"
    /\ SubjectNameOf(timing) # ""
    /\ ReviewDaysOf(timing).t = "list"
    /\ Len(ReviewDaysOf(timing).v) > 0

\* the offsets the inner loop adds for one entry, in order
SeedOffsets(review_days) ==
    LET f[i \in 0..Len(review_days)] ==
            IF i = 0 THEN <<>>
            ELSE IF IntOf(review_days[i]) = None THEN f[i - 1]
                 ELSE Append(f[i - 1], IntOf(review_days[i]).v)
    IN f[Len(review_days)]

\* the loop over the parsed entries: the tables, the id sequences and `created`
\* after the first i entries
SeedLoop(parsed, ls, its, sq) ==
    LET f[i \in 0..Len(parsed)] ==
            IF i = 0 THEN [lists |-> ls, items |-> its, seqs |-> sq, created |-> 0]
            ELSE IF ~SeedsList(parsed[i]) THEN f[i - 1]
                 ELSE LET p == f[i - 1]
                          id == p.seqs.review_set_lists + 1
                          offs == SeedOffsets(ReviewDaysOf(parsed[i]).v)
                      IN [lists |-> p.lists \cup
                                    {ReviewSetListRow(id, <<SubjectNameOf(parsed[i]), LegacySuffix>>)},
                          items |-> p.items \cup
                                    {ReviewSetItemRow(p.seqs.review_set_items + k, id, offs[k])
                                       : k \in 1..Len(offs)},
                          seqs |-> [p.seqs EXCEPT !.review_set_lists = id,
                                                  !.review_set_items = @ + Len(offs)],
                          created |-> p.created + 1]
    IN f[Len(parsed)]

\* _seed_review_set_lists_from_legacy_settings(db)
SeedFromLegacySettings(ready, sets, ls, its, sq) ==
    LET unchanged == [lists |-> ls, items |-> its, seqs |-> sq, created |-> 0]
        setting == sets["review_timing"]
    IN IF ~ready THEN unchanged
       ELSE IF Cardinality(ls) > 0 THEN unchanged
       ELSE IF setting = None THEN unchanged
       ELSE IF JsonLoads(setting) = None THEN unchanged
       ELSE IF JsonLoads(setting).v.t # "list" THEN unchanged
       ELSE SeedLoop(JsonLoads(setting).v.v, ls, its, sq)


---------------------------------------------------------------------------
(* SpecRS: the review-set operations of crud.py, one call after the other  *)

\* create_review_set_list, create_review_set_item and generate are called while
\* the id sequences stay within these values.  (Seeding needs no such limit: it
\* runs on an empty review_set_lists while the flag reads true, and the one
\* operation that empties the table again stores the flag as false.)
MaxListSeq == 2
MaxItemSeq == 1
MaxTodoSeq == 1

WithinSeqs(sq) ==
    /\ sq.review_set_lists <= MaxListSeq
    /\ sq.review_set_items <= MaxItemSeq
    /\ sq.todos <= MaxTodoSeq

RsRec(op, status, created) == [op |-> op, status |-> status, created |-> created]

\* RuntimeError("review_set_lists tables are not ready (migration not applied)")
NotReady(op) == RsRec(op, "not_ready", 0)

\* .filter(ReviewSetList.id == set_list_id).first()
FindList(set_list_id) ==
    IF \E l \in lists : l.id = set_list_id
    THEN CHOOSE l \in lists : l.id = set_list_id
    ELSE None

\* what the review-set operations other than generate leave alone
RsFrame == UNCHANGED <<ledger, seqVars, concVars, dashVars, tables_ready, todos>>

\* the ids of the rows of S, highest first (created_at and id grow together)
IdsDesc(S) ==
    LET f[T \in SUBSET S] ==
            IF T = {} THEN <<>>
            ELSE LET r == CHOOSE x \in T : \A y \in T : y.id <= x.id
                 IN <<r.id>> \o f[T \ {r}]
    IN f[S]

GetAllReviewSetLists_IgnoresFlag ==
    /\ IF ~tables_ready
       THEN /\ rs' = NotReady("get_all")
            /\ UNCHANGED <<settings, lists, items, seqs>>
       ELSE LET seeded ==
                    IF Cardinality(lists) = 0
                    THEN SeedFromLegacySettings(tables_ready, settings, lists, items, seqs)
                    ELSE [lists |-> lists, items |-> items, seqs |-> seqs, created |-> 0]
            IN /\ lists' = seeded.lists
               /\ items' = seeded.items
               /\ seqs' = seeded.seqs
               /\ rs' = [op |-> "get_all", status |-> "ok", created |-> seeded.created,
                         result |-> IdsDesc(seeded.lists)]
               /\ UNCHANGED settings
    /\ RsFrame

GetAllReviewSetLists_SeedsAgain ==
    /\ IF ~tables_ready
       THEN /\ rs' = NotReady("get_all")
            /\ UNCHANGED <<settings, lists, items, seqs>>
       ELSE LET setting == settings["review_timing"]
                seeded ==
                    IF /\ GetBoolSetting(settings, "use_legacy_review_sets", TRUE)
                       /\ setting # None
                       /\ JsonLoads(setting) # None
                       /\ JsonLoads(setting).v.t = "list"
                    THEN SeedLoop(JsonLoads(setting).v.v, lists, items, seqs)
                    ELSE [lists |-> lists, items |-> items, seqs |-> seqs, created |-> 0]
            IN /\ lists' = seeded.lists
               /\ items' = seeded.items
               /\ seqs' = seeded.seqs
               /\ rs' = [op |-> "get_all", status |-> "ok", created |-> seeded.created,
                         result |-> IdsDesc(seeded.lists)]
               /\ UNCHANGED settings
    /\ RsFrame

\* get_all_review_set_lists(db, skip=0, limit=100)
GetAllReviewSetLists ==
    /\ IF ~tables_ready
       THEN /\ rs' = NotReady("get_all")
            /\ UNCHANGED <<settings, lists, items, seqs>>
       ELSE LET seeded ==
                    IF Cardinality(lists) = 0
                       /\ GetBoolSetting(settings, "use_legacy_review_sets", TRUE)
                    THEN SeedFromLegacySettings(tables_ready, settings, lists, items, seqs)
                    ELSE [lists |-> lists, items |-> items, seqs |-> seqs, created |-> 0]
            IN /\ lists' = seeded.lists
               /\ items' = seeded.items
               /\ seqs' = seeded.seqs
               /\ rs' = [op |-> "get_all", status |-> "ok", created |-> seeded.created,
                         result |-> IdsDesc(seeded.lists)]
               /\ UNCHANGED settings
    /\ RsFrame

GetReviewSetList_NoReadyCheck(set_list_id) ==
    /\ rs' = IF FindList(set_list_id) = None THEN RsRec("get", "not_found", 0)
             ELSE RsRec("get", "ok", 0)
    /\ UNCHANGED <<settings, lists, items, seqs>>
    /\ RsFrame

\* get_review_set_list(db, set_list_id)
GetReviewSetList(set_list_id) ==
    /\ rs' = IF ~tables_ready THEN NotReady("get")
             ELSE IF FindList(set_list_id) = None THEN RsRec("get", "not_found", 0)
             ELSE RsRec("get", "ok", 0)
    /\ UNCHANGED <<settings, lists, items, seqs>>
    /\ RsFrame

CreateReviewSetList_KeepsFlag(name, offsets) ==
    /\ IF ~tables_ready
       THEN /\ rs' = NotReady("create_list")
            /\ UNCHANGED <<settings, lists, items, seqs>>
       ELSE LET id == seqs.review_set_lists + 1
            IN /\ seqs' = [seqs EXCEPT !.review_set_lists = id,
                                       !.review_set_items = @ + Len(offsets)]
               /\ WithinSeqs(seqs')
               /\ lists' = lists \cup {ReviewSetListRow(id, name)}
               /\ items' = items \cup {ReviewSetItemRow(seqs.review_set_items + k, id, offsets[k])
                                         : k \in 1..Len(offsets)}
               /\ UNCHANGED settings
               /\ rs' = RsRec("create_list", "ok", 1)
    /\ RsFrame

\* create_review_set_list(db, payload): payload.name, payload.items as offsets
CreateReviewSetList(name, offsets) ==
    /\ IF ~tables_ready
       THEN /\ rs' = NotReady("create_list")
            /\ UNCHANGED <<settings, lists, items, seqs>>
       ELSE LET id == seqs.review_set_lists + 1
            IN /\ seqs' = [seqs EXCEPT !.review_set_lists = id,
                                       !.review_set_items = @ + Len(offsets)]
               /\ WithinSeqs(seqs')
               /\ lists' = lists \cup {ReviewSetListRow(id, name)}
               /\ items' = items \cup {ReviewSetItemRow(seqs.review_set_items + k, id, offsets[k])
                                         : k \in 1..Len(offsets)}
               /\ settings' = CreateOrUpdateSetting(settings, "use_legacy_review_sets", FalseText)
               /\ rs' = RsRec("create_list", "ok", 1)
    /\ RsFrame

\* update_review_set_list(db, set_list_id, payload): name is Some(name), or None
\* when the payload leaves it unset
UpdateReviewSetList(set_list_id, name) ==
    /\ LET found == FindList(set_list_id)
       IN /\ IF ~tables_ready
             THEN rs' = NotReady("update_list") /\ UNCHANGED lists
             ELSE IF found = None
             THEN rs' = RsRec("update_list", "not_found", 0) /\ UNCHANGED lists
             ELSE /\ lists' = IF name = None THEN lists
                              ELSE (lists \ {found}) \cup {ReviewSetListRow(found.id, name.v)}
                  /\ rs' = RsRec("update_list", "ok", 0)
          /\ UNCHANGED <<settings, items, seqs>>
    /\ RsFrame

DeleteReviewSetList_FlagOnUnknown(set_list_id) ==
    /\ LET found == FindList(set_list_id)
       IN /\ IF ~tables_ready
             THEN rs' = NotReady("delete_list") /\ UNCHANGED <<settings, lists, items>>
             ELSE IF found = None
             THEN /\ rs' = RsRec("delete_list", "not_found", 0)
                  /\ UNCHANGED <<lists, items>>
                  /\ settings' = IF Cardinality(lists) = 0
                                 THEN CreateOrUpdateSetting(settings, "use_legacy_review_sets", FalseText)
                                 ELSE settings
             ELSE /\ lists' = lists \ {found}
                  /\ items' = {i \in items : i.set_list_id # found.id}
                  /\ settings' = IF Cardinality(lists') = 0
                                 THEN CreateOrUpdateSetting(settings, "use_legacy_review_sets", FalseText)
                                 ELSE settings
                  /\ rs' = RsRec("delete_list", "ok", 0)
          /\ UNCHANGED seqs
    /\ RsFrame

DeleteReviewSetList_NoCascade(set_list_id) ==
    /\ LET found == FindList(set_list_id)
       IN /\ IF ~tables_ready
             THEN rs' = NotReady("delete_list") /\ UNCHANGED <<settings, lists, items>>
             ELSE IF found = None
             THEN rs' = RsRec("delete_list", "not_found", 0) /\ UNCHANGED <<settings, lists, items>>
             ELSE /\ lists' = lists \ {found}
                  /\ items' = items
                  /\ settings' = IF Cardinality(lists') = 0
                                 THEN CreateOrUpdateSetting(settings, "use_legacy_review_sets", FalseText)
                                 ELSE settings
                  /\ rs' = RsRec("delete_list", "ok", 0)
          /\ UNCHANGED seqs
    /\ RsFrame

DeleteReviewSetList_KeepsFlag(set_list_id) ==
    /\ LET found == FindList(set_list_id)
       IN /\ IF ~tables_ready
             THEN rs' = NotReady("delete_list") /\ UNCHANGED <<lists, items>>
             ELSE IF found = None
             THEN rs' = RsRec("delete_list", "not_found", 0) /\ UNCHANGED <<lists, items>>
             ELSE /\ lists' = lists \ {found}
                  /\ items' = {i \in items : i.set_list_id # found.id}
                  /\ rs' = RsRec("delete_list", "ok", 0)
          /\ UNCHANGED <<settings, seqs>>
    /\ RsFrame

\* delete_review_set_list(db, set_list_id); the ORM deletes the list's items
\* with it (cascade="all, delete-orphan")
DeleteReviewSetList(set_list_id) ==
    /\ LET found == FindList(set_list_id)
       IN /\ IF ~tables_ready
             THEN rs' = NotReady("delete_list") /\ UNCHANGED <<settings, lists, items>>
             ELSE IF found = None
             THEN rs' = RsRec("delete_list", "not_found", 0) /\ UNCHANGED <<settings, lists, items>>
             ELSE /\ lists' = lists \ {found}
                  /\ items' = {i \in items : i.set_list_id # found.id}
                  /\ settings' = IF Cardinality(lists') = 0
                                 THEN CreateOrUpdateSetting(settings, "use_legacy_review_sets", FalseText)
                                 ELSE settings
                  /\ rs' = RsRec("delete_list", "ok", 0)
          /\ UNCHANGED seqs
    /\ RsFrame

\* create_review_set_item(db, set_list_id, payload)
CreateReviewSetItem(set_list_id, offset_days) ==
    /\ LET found == FindList(set_list_id)
       IN /\ IF ~tables_ready
             THEN rs' = NotReady("create_item") /\ UNCHANGED <<items, seqs>>
             ELSE IF found = None
             THEN rs' = RsRec("create_item", "not_found", 0) /\ UNCHANGED <<items, seqs>>
             ELSE /\ seqs' = [seqs EXCEPT !.review_set_items = @ + 1]
                  /\ WithinSeqs(seqs')
                  /\ items' = items \cup {ReviewSetItemRow(seqs'.review_set_items, set_list_id, offset_days)}
                  /\ rs' = RsRec("create_item", "ok", 0)
          /\ UNCHANGED <<settings, lists>>
    /\ RsFrame

\* update_review_set_item(db, item_id, offset_days)
UpdateReviewSetItem(item_id, offset_days) ==
    /\ IF ~tables_ready
       THEN rs' = NotReady("update_item") /\ UNCHANGED items
       ELSE IF ~(\E i \in items : i.id = item_id)
       THEN rs' = RsRec("update_item", "not_found", 0) /\ UNCHANGED items
       ELSE /\ items' = {IF i.id = item_id
                         THEN ReviewSetItemRow(i.id, i.set_list_id, offset_days) ELSE i
                           : i \in items}
            /\ rs' = RsRec("update_item", "ok", 0)
    /\ UNCHANGED <<settings, lists, seqs>>
    /\ RsFrame

\* delete_review_set_item(db, item_id)
DeleteReviewSetItem(item_id) ==
    /\ IF ~tables_ready
       THEN rs' = NotReady("delete_item") /\ UNCHANGED items
       ELSE IF ~(\E i \in items : i.id = item_id)
       THEN rs' = RsRec("delete_item", "not_found", 0) /\ UNCHANGED items
       ELSE /\ items' = {i \in items : i.id # item_id}
            /\ rs' = RsRec("delete_item", "ok", 0)
    /\ UNCHANGED <<settings, lists, seqs>>
    /\ RsFrame


TodoRow(id, title, subject, due_date, project_id) ==
    [id |-> id, title |-> title, subject |-> subject, due_date |-> due_date,
     project_id |-> project_id, completed |-> FALSE]

\* a datetime is the pair of its day (an ordinal) and its hour;
\* base.replace(hour=0, minute=0, second=0, microsecond=0)
Midnight(start_date) == <<start_date[1], 0>>

\* base + timedelta(days=int(item.offset_days))
DueDate(base, offset_days) == <<base[1] + offset_days, base[2]>>

ItemsById_Desc(S) ==
    LET f[T \in SUBSET S] ==
            IF T = {} THEN <<>>
            ELSE LET r == CHOOSE x \in T : \A y \in T : x.id >= y.id
                 IN <<r>> \o f[T \ {r}]
    IN f[S]

\* the items of a list in the order of their ids
ItemsById(S) ==
    LET f[T \in SUBSET S] ==
            IF T = {} THEN <<>>
            ELSE LET r == CHOOSE x \in T : \A y \in T : x.id <= y.id
                 IN <<r>> \o f[T \ {r}]
    IN f[S]

GenerateTodosFromReviewSet_AllowsEmpty(set_list_id, subject, start_date, project_id, committed) ==
    LET found == FindList(set_list_id)
        its == ItemsById({i \in items : i.set_list_id = set_list_id})
        base == Midnight(start_date)
    IN /\ IF subject = "" \/ Strip(subject) = ""
          THEN rs' = RsRec("generate", "subject is required", 0) /\ UNCHANGED <<todos, seqs>>
          ELSE IF ~tables_ready
          THEN rs' = NotReady("generate") /\ UNCHANGED <<todos, seqs>>
          ELSE IF found = None
          THEN rs' = RsRec("generate", "set_list not found", 0) /\ UNCHANGED <<todos, seqs>>
          ELSE IF ~committed
          THEN rs' = RsRec("generate", "commit failed", 0) /\ UNCHANGED <<todos, seqs>>
          ELSE /\ seqs' = [seqs EXCEPT !.todos = @ + Len(its)]
               /\ todos' = todos \cup
                     {TodoRow(seqs.todos + k, found.name \o <<"_review", k>>,
                              Strip(subject), DueDate(base, its[k].offset_days), project_id)
                        : k \in 1..Len(its)}
               /\ rs' = RsRec("generate", "ok", Len(its))
       /\ UNCHANGED <<ledger, seqVars, concVars, dashVars, tables_ready, settings, lists, items>>

\* generate_todos_from_review_set(db, set_list_id, subject, None, start_date,
\* project_id): a title is the list's name followed by the pass number; the
\* reminders are added to the session and written by the one db.commit() of
\* line 944, which either commits them all (committed) or raises and leaves
\* the table as it was
GenerateTodosFromReviewSet(set_list_id, subject, start_date, project_id, committed) ==
    LET found == FindList(set_list_id)
        its == ItemsById({i \in items : i.set_list_id = set_list_id})
        base == Midnight(start_date)
    IN /\ IF subject = "" \/ Strip(subject) = ""
          THEN rs' = RsRec("generate", "subject is required", 0) /\ UNCHANGED <<todos, seqs>>
          ELSE IF ~tables_ready
          THEN rs' = NotReady("generate") /\ UNCHANGED <<todos, seqs>>
          ELSE IF found = None
          THEN rs' = RsRec("generate", "set_list not found", 0) /\ UNCHANGED <<todos, seqs>>
          ELSE IF Len(its) = 0
          THEN rs' = RsRec("generate", "set_list has no items", 0) /\ UNCHANGED <<todos, seqs>>
          ELSE IF ~committed
          THEN rs' = RsRec("generate", "commit failed", 0) /\ UNCHANGED <<todos, seqs>>
          ELSE /\ seqs' = [seqs EXCEPT !.todos = @ + Len(its)]
               /\ todos' = todos \cup
                     {TodoRow(seqs.todos + k, found.name \o <<"_review", k>>,
                              Strip(subject), DueDate(base, its[k].offset_days), project_id)
                        : k \in 1..Len(its)}
               /\ rs' = RsRec("generate", "ok", Len(its))
       /\ UNCHANGED <<ledger, seqVars, concVars, dashVars, tables_ready, settings, lists, items>>

\* alembic upgrade 20260103_0002 and 20260103_0003: the tables are created, the
\* lists are seeded from settings.review_timing, and use_legacy_review_sets is
\* inserted as "true" unless the key exists
AlembicUpgrade ==
    /\ ~tables_ready
    /\ tables_ready' = TRUE
    /\ LET row == settings["review_timing"]
           seeded == IF row = None \/ JsonLoads(row) = None THEN None
                     ELSE IF JsonLoads(row).v.t # "list" THEN None
                     ELSE IF Cardinality(lists) > 0 THEN None
                     ELSE Some(SeedLoop(JsonLoads(row).v.v, lists, items, seqs))
       IN IF seeded = None
          THEN UNCHANGED <<lists, items, seqs>>
          ELSE /\ lists' = seeded.v.lists
               /\ items' = seeded.v.items
               /\ seqs' = seeded.v.seqs
    /\ settings' = IF settings["use_legacy_review_sets"] = None
                   THEN [settings EXCEPT !["use_legacy_review_sets"] = JBool(TRUE)]
                   ELSE settings
    /\ rs' = RsRec("upgrade", "ok", Cardinality(lists') - Cardinality(lists))
    /\ UNCHANGED <<ledger, seqVars, concVars, dashVars, todos>>

\* the start_date of the generate calls of SpecRS: 2026-02-02 at 15:00
RsStart == <<ParseDateKey(D3), 15>>

Entry(subject_name, review_days) ==
    JDict([subject_name |-> JStr(subject_name), review_days |-> JList(review_days)])

\* the values of settings['review_timing']: no row, a text that is not JSON, a
\* JSON object, the entry of Tax with days 1, 3, 7, a list of entries the loop
\* skips next to two it does not, two entries of one subject with a
\* fractional and a quoted day, and an entry with a negative day
ReviewTimings ==
    <<None,
      Text("{oops"),
      Entry("Tax", <<JInt(1)>>),
      JList(<<Entry("Tax", <<JInt(1), JInt(3), JInt(7)>>)>>),
      JList(<<JStr("junk"),
              Entry(" ", <<JInt(1)>>),
              Entry("Audit", <<>>),
              JDict([subject_name |-> JStr("Law"), review_days |-> JInt(7)]),
              JDict([review_days |-> JList(<<JInt(7)>>)]),
              Entry(" Tax ", <<JInt(1), JStr("x"), JNull>>),
              Entry("Law", <<JStr("x")>>)>>),
      JList(<<Entry("Tax", <<JInt(1)>>),
              Entry("Tax", <<JFloat(5, 2), JStr("3")>>)>>),
      JList(<<Entry("Law", <<JInt(-1), JInt(0)>>)>>)>>

\* the values of settings['use_legacy_review_sets']: no row, "true", "false",
\* "N" and a blank text
LegacyFlags == <<None, JBool(TRUE), JBool(FALSE), Text("N"), Text(" ")>>

\* the tables of the review sets empty, and the rest of the database idle
ReviewSetsEmpty ==
    /\ lists = {}
    /\ items = {}
    /\ todos = {}
    /\ seqs = NoSeqs
    /\ rs = NoRs
    /\ ledger = EmptyBag
    /\ progress = {}
    /\ dash = NoDash
    /\ summary = NoSummary
    /\ LedgerIdle

\* before or after the migration, review_timing without a row or holding one
\* entry with one day, the flag without a row or stored as "false"
InitRS ==
    /\ tables_ready \in BOOLEAN
    /\ \E t \in {None, JList(<<Entry("Tax", <<JInt(7)>>)>>)}, f \in {None, FalseText} :
          settings = [NoSettings EXCEPT !["review_timing"] = t,
                                        !["use_legacy_review_sets"] = f]
    /\ ReviewSetsEmpty

NextRS ==
    \/ GetAllReviewSetLists
    \/ \E id \in 1..MaxListSeq : GetReviewSetList(id)
    \/ \E offsets \in {<<>>, <<2>>} : CreateReviewSetList(<<"Mine">>, offsets)
    \/ \E id \in 1..MaxListSeq, name \in {None, Some(<<"Renamed">>)} : UpdateReviewSetList(id, name)
    \/ \E id \in 1..MaxListSeq : DeleteReviewSetList(id)
    \/ \E id \in 1..MaxListSeq : CreateReviewSetItem(id, 2)
    \/ \E id \in 1..MaxItemSeq : UpdateReviewSetItem(id, 5)
    \/ \E id \in 1..MaxItemSeq : DeleteReviewSetItem(id)
    \/ \E id \in 1..MaxListSeq, subject \in {"Tax", " ", ""} :
          /\ GenerateTodosFromReviewSet(id, subject, RsStart, None, TRUE)
          /\ WithinSeqs(seqs')
    \/ AlembicUpgrade

SpecRS == InitRS /\ [][NextRS]_vars


---------------------------------------------------------------------------
(* SpecSeed: the migration, the list-read path, the creation and the       *)
(* deletion of lists and the creation of items, over every review_timing   *)
(* and flag value                                                          *)

InitSeed ==
    /\ tables_ready \in BOOLEAN
    /\ \E t \in DOMAIN ReviewTimings, f \in DOMAIN LegacyFlags :
          settings = [NoSettings EXCEPT !["review_timing"] = ReviewTimings[t],
                                        !["use_legacy_review_sets"] = LegacyFlags[f]]
    /\ ReviewSetsEmpty

NextSeed ==
    \/ AlembicUpgrade
    \/ GetAllReviewSetLists
    \/ \E offsets \in {<<>>, <<2>>} : CreateReviewSetList(<<"Mine">>, offsets)
    \/ \E id \in 1..MaxListSeq : DeleteReviewSetList(id)
    \/ \E id \in 1..MaxListSeq : CreateReviewSetItem(id, 2)

SpecSeed == InitSeed /\ [][NextSeed]_vars


---------------------------------------------------------------------------
(* Properties of the review-set operations                                 *)

\* a step of a review-set operation taken while the tables are absent
StepWhileAbsent == ~tables_ready /\ ~tables_ready'

ReviewSetDataUnchanged == UNCHANGED <<lists, items, seqs, todos, settings>>

\* C17 as stated: while the tables are absent every review-set operation,
\* generate included, fails with the not-ready condition and changes neither
\* the lists, the items nor the use_legacy_review_sets flag.
C17_AbsentTablesNotReady ==
    [][StepWhileAbsent => (rs'.status = "not_ready" /\ ReviewSetDataUnchanged)]_vars

\* C17 amended: while the tables are absent every review-set operation fails
\* and changes neither the lists, the items nor the flag; the failure is the
\* not-ready condition, except for generate called with a blank subject, which
\* fails with "subject is required" (the check generate makes first).
C17_AbsentTablesFail ==
    [][StepWhileAbsent =>
         /\ ReviewSetDataUnchanged
         /\ rs'.status \in {"not_ready", "subject is required"}
         /\ rs'.status = "subject is required" => rs'.op = "generate"
         /\ \A id \in 1..MaxListSeq :
               GenerateTodosFromReviewSet(id, "Tax", RsStart, None, TRUE)
                  => rs'.status = "not_ready"
         /\ \A id \in 1..MaxListSeq :
               GenerateTodosFromReviewSet(id, " ", RsStart, None, TRUE)
                  => rs'.status = "subject is required"]_vars

\* generate with a subject has failed not-ready while the tables are absent
C17_Witness ==
    /\ ~tables_ready
    /\ rs = NotReady("generate")
    /\ settings["review_timing"] # None

\* use_legacy_review_sets as the list-read path reads it
FlagReadsTrue == GetBoolSetting(settings, "use_legacy_review_sets", TRUE)

\* the step is a call of get_all_review_set_lists
ListReadStep == rs'.op = "get_all"

\* C18: get_all_review_set_lists creates lists only when, at the call, the
\* tables are ready, no list exists and use_legacy_review_sets reads true (as it
\* does when unset); with a list present or the flag reading false it creates
\* nothing, and with no list and the flag false it returns an empty result.
C18_SeedsOnlyWhenEmptyAndLegacy ==
    [][ListReadStep =>
         /\ (lists' # lists \/ items' # items)
               => (tables_ready /\ Cardinality(lists) = 0 /\ FlagReadsTrue)
         /\ (tables_ready /\ (Cardinality(lists) > 0 \/ ~FlagReadsTrue))
               => (UNCHANGED <<lists, items, seqs, settings>> /\ rs'.created = 0)
         /\ (tables_ready /\ Cardinality(lists) = 0 /\ ~FlagReadsTrue)
               => (rs'.status = "ok" /\ rs'.result = <<>>)
         /\ settings["use_legacy_review_sets"] = None => FlagReadsTrue]_vars

\* a list-read call with the flag unset has seeded one list
C18_Witness ==
    /\ rs.op = "get_all"
    /\ rs.status = "ok"
    /\ rs.created = 1
    /\ settings["use_legacy_review_sets"] = None
    /\ Cardinality(lists) = 1

\* json.loads(settings['review_timing']) is a list
TimingIsList ==
    /\ settings["review_timing"] # None
    /\ JsonLoads(settings["review_timing"]) # None
    /\ JsonLoads(settings["review_timing"]).v.t = "list"

\* the seeding loop has just run: in the migration, or in a list-read call that
\* found no list and the flag reading true
SeedingRan ==
    /\ TimingIsList
    /\ \/ rs.op = "upgrade"
       \/ /\ rs.op = "get_all"
          /\ rs.status = "ok"
          /\ rs.created > 0 \/ (lists = {} /\ FlagReadsTrue)

\* the rows of S in the order of their ids
RowsById(S) ==
    LET f[T \in SUBSET S] ==
            IF T = {} THEN <<>>
            ELSE LET r == CHOOSE x \in T : \A y \in T : x.id <= y.id
                 IN <<r>> \o f[T \ {r}]
    IN f[S]

\* the offsets of the items of list id, in the order of the items' ids
OffsetsOfList(id) ==
    LET its == RowsById({i \in items : i.set_list_id = id})
    IN [k \in 1..Len(its) |-> its[k].offset_days]

\* after the seeding, the lists are, in order, those of the entries of
\* review_timing that satisfy Usable, the list of an entry named NameOf(entry)
\* and holding the offsets OffsetsOf(entry), and every item belongs to a list
SeededAs(Usable(_), NameOf(_), OffsetsOf(_)) ==
    LET usable == SelectSeq(JsonLoads(settings["review_timing"]).v.v, Usable)
        seeded == RowsById(lists)
    IN /\ Len(seeded) = Len(usable)
       /\ rs.created = Len(usable)
       /\ \A k \in 1..Len(seeded) :
             /\ seeded[k].name = NameOf(usable[k])
             /\ OffsetsOfList(seeded[k].id) = OffsetsOf(usable[k])
       /\ \A i \in items : \E l \in lists : l.id = i.set_list_id

\* an entry with a non-empty subject_name and non-empty review_days
NonEmptyEntry(timing) ==
    /\ timing.t = "dict"
    /\ "subject_name" \in DOMAIN timing.v
    /\ timing.v["subject_name"].t = "str"
    /\ timing.v["subject_name"].v # ""
    /\ "review_days" \in DOMAIN timing.v
    /\ timing.v["review_days"].t = "list"
    /\ Len(timing.v["review_days"].v) > 0

IsJsonInt(day) == day.t = "int"

ValueOf(day) == day.v

MapSeq(Op(_), seq) == [k \in 1..Len(seq) |-> Op(seq[k])]

SubjectWithSuffix(timing) == <<timing.v["subject_name"].v, LegacySuffix>>

IntegerOffsets(timing) == MapSeq(ValueOf, SelectSeq(timing.v["review_days"].v, IsJsonInt))

\* C19 as stated: when seeding runs it produces exactly one list per entry of
\* review_timing with a non-empty subject_name and non-empty review_days, named
\* the entry's subject with the legacy suffix, holding one item per integer
\* day-offset in listed order; a non-integer offset is skipped.
C19_OneListPerNonEmptyEntry ==
    SeedingRan => SeededAs(NonEmptyEntry, SubjectWithSuffix, IntegerOffsets)

\* an entry whose subject_name is not blank and whose review_days is not empty
NonBlankEntry(timing) ==
    /\ NonEmptyEntry(timing)
    /\ timing.v["subject_name"].v \notin {" "}

\* the subject without the white space around it, with the suffix
TrimmedSubjectWithSuffix(timing) ==
    <<IF timing.v["subject_name"].v = " Tax " THEN "Tax" ELSE timing.v["subject_name"].v,
      LegacySuffix>>

\* the days int() converts: integers, booleans, numbers with a fraction and
\* numeric strings
Converts(day) ==
    \/ day.t \in {"int", "bool", "float"}
    \/ day.t = "str" /\ day.v \in {"3"}

\* what int() makes of them: the fraction of 5/2 is cut off, "3" is parsed
Converted(day) ==
    CASE day.t = "int" -> day.v
      [] day.t = "bool" -> IF day.v THEN 1 ELSE 0
      [] day = JFloat(5, 2) -> 2
      [] day = JStr("3") -> 3

ConvertedOffsets(timing) == MapSeq(Converted, SelectSeq(timing.v["review_days"].v, Converts))

\* C19 amended: when seeding runs it produces exactly one list per entry of
\* review_timing whose subject_name is not blank and whose review_days is a
\* non-empty list, named the entry's subject without surrounding white space
\* with the legacy suffix, holding one item per day-offset that int() converts,
\* in listed order (an integer as it is, a fractional number cut to its integer
\* part, a numeric string parsed); a day-offset int() rejects is skipped.
C19_OneListPerUsableEntry ==
    SeedingRan => SeededAs(NonBlankEntry, TrimmedSubjectWithSuffix, ConvertedOffsets)

\* the entry of Tax with review_days [1, 3, 7] has been seeded by a list read:
\* one list with the three items
C19_Witness ==
    /\ SeedingRan
    /\ rs.op = "get_all"
    /\ settings["review_timing"] = JList(<<Entry("Tax", <<JInt(1), JInt(3), JInt(7)>>)>>)
    /\ lists = {ReviewSetListRow(1, <<"Tax", LegacySuffix>>)}
    /\ OffsetsOfList(1) = <<1, 3, 7>>
    /\ Cardinality(items) = 3

\* the lists the seeding has made of the entries of subject
SeededListsOf(subject) == {l \in lists : l.name = <<subject, LegacySuffix>>}

\* the entries of review_timing the seeding makes a list named subject of
EntriesOf(subject) ==
    IF ~TimingIsList THEN {}
    ELSE LET parsed == JsonLoads(settings["review_timing"]).v.v
         IN {k \in 1..Len(parsed) :
               NonBlankEntry(parsed[k]) /\ TrimmedSubjectWithSuffix(parsed[k])[1] = subject}

NoEntrySeededTwice ==
    \A subject \in {"Tax", "Law", "Audit"} :
       Cardinality(SeededListsOf(subject)) <= Cardinality(EntriesOf(subject))

\* C20: seeding is one-shot: a list-read call made while a list exists (after
\* a list read has seeded, as often as one likes) creates no list and no item,
\* and no entry of review_timing ever has two seeded lists.
C20_SeedingOneShot ==
    /\ [][(ListReadStep /\ Cardinality(lists) > 0)
            => (UNCHANGED <<lists, items, seqs>> /\ rs'.created = 0)]_vars
    /\ []NoEntrySeededTwice

\* a list read after the list read that seeded the two entries of Tax: the two
\* lists are there and the call has created nothing
C20_Witness ==
    /\ rs.op = "get_all"
    /\ rs.status = "ok"
    /\ rs.created = 0
    /\ settings["use_legacy_review_sets"] = None
    /\ Cardinality(SeededListsOf("Tax")) = 2
    /\ Cardinality(lists) = 2


---------------------------------------------------------------------------
(* Properties of the cut-over from the legacy review sets                  *)

\* use_legacy_review_sets reads back as false, whatever default the reader has
FlagReadsFalse ==
    /\ ~GetBoolSetting(settings, "use_legacy_review_sets", TRUE)
    /\ ~GetBoolSetting(settings, "use_legacy_review_sets", FALSE)

ListDeletedStep == rs'.op = "delete_list" /\ rs'.status = "ok"

CutOver ==
    \/ rs.op = "create_list" /\ rs.status = "ok"
    \/ rs.op = "delete_list" /\ rs.status = "ok" /\ lists = {}

\* a list-read call has just created lists from review_timing
Resurrected == rs.op = "get_all" /\ rs.status = "ok" /\ rs.created > 0

LegacyFlag == settings["use_legacy_review_sets"]

\* C24: the cut-over has no back-edge: no review-set operation (list read with
\* its seeding, create, update and delete of lists and items, generate) changes
\* use_legacy_review_sets from reading false to reading true, and the only
\* value these operations write to the flag is false.
C24_NoBackEdge ==
    [][/\ ~GetBoolSetting(settings, "use_legacy_review_sets", TRUE)
            => ~GetBoolSetting(settings', "use_legacy_review_sets", TRUE)
       /\ (LegacyFlag' # LegacyFlag /\ rs'.op # "upgrade") => LegacyFlag' = JBool(FALSE)
       /\ rs'.op \in {"get_all", "get", "update_list", "create_item", "update_item",
                      "delete_item", "generate"} => settings' = settings]_vars

\* a second list has been created after the cut-over and the flag is still
\* stored as false
C24_Witness ==
    /\ rs.op = "create_list"
    /\ rs.status = "ok"
    /\ Cardinality(lists) = 2
    /\ LegacyFlag = JBool(FALSE)
    /\ todos # {}


---------------------------------------------------------------------------
(* SpecFlag: _get_bool_setting over the values a settings row can hold     *)

\* the values of settings['use_legacy_review_sets']: no row, empty and blank
\* text, the JSON booleans, the texts "1" and "0", the words in their case
\* variants, two words with blanks around them, and values of neither set
FlagValues ==
    <<None, Text(""), Text(" "),
      JBool(TRUE), JBool(FALSE), JInt(1), JInt(0),
      Text("TRUE"), Text("True"), Text("yes"), Text("Yes"), Text("YES"),
      Text("y"), Text("Y"), Text("t"), Text("T"),
      Text("FALSE"), Text("False"), Text("no"), Text("No"), Text("NO"),
      Text("n"), Text("N"), Text("f"), Text("F"),
      Text(" yes "), Text(" N "),
      JInt(2), JNull, JStr("true"), JList(<<>>), JFloat(1, 1),
      JDict([visible |-> JBool(TRUE)]),
      Text("on"), Text("off"), Text("{oops"), Text("truthy"), Text("nope")>>

InitFlag ==
    /\ tables_ready = TRUE
    /\ \E i \in DOMAIN FlagValues :
          settings = [NoSettings EXCEPT !["use_legacy_review_sets"] = FlagValues[i]]
    /\ ReviewSetsEmpty

\* _get_bool_setting(db, "use_legacy_review_sets", default)
ReadBoolSetting(default) ==
    /\ rs' = [op |-> "read_flag", default |-> default,
              res |-> GetBoolSetting(settings, "use_legacy_review_sets", default)]
    /\ UNCHANGED <<ledger, seqVars, concVars, settings, dashVars,
                   tables_ready, lists, items, todos, seqs>>

NextFlag == \E default \in BOOLEAN : ReadBoolSetting(default)

SpecFlag == InitFlag /\ [][NextFlag]_vars

\* the case variants of true, 1, yes, y, t and of false, 0, no, n, f
TrueWords == {"true", "TRUE", "True", "1", "yes", "Yes", "YES", "y", "Y", "t", "T"}

FalseWords == {"false", "FALSE", "False", "0", "no", "No", "NO", "n", "N", "f", "F"}

\* the text of a stored value, where the model keeps it as text or as the
\* number it spells
IsWord(v, words) ==
    /\ v # None
    /\ \/ v.t = "text" /\ v.v \in words
       \/ v.t = "int" /\ v.v = 1 /\ "1" \in words
       \/ v.t = "int" /\ v.v = 0 /\ "0" \in words

\* the outcome of the last read is that of a value that is JSON true or in
\* trues, JSON false or in falses, or anything else
ReadsAs(trues, falses) ==
    rs.op = "read_flag" =>
       IF LegacyFlag = JBool(TRUE) \/ IsWord(LegacyFlag, trues) THEN rs.res = TRUE
       ELSE IF LegacyFlag = JBool(FALSE) \/ IsWord(LegacyFlag, falses) THEN rs.res = FALSE
       ELSE rs.res = rs.default

\* C25 as stated: _get_bool_setting returns true for a JSON true or a case
\* variant of true/1/yes/y/t, false for a JSON false or a case variant of
\* false/0/no/n/f, and the caller's default when the setting is missing, empty
\* or blank, or holds any other value.
C25_FlagParsing == ReadsAs(TrueWords, FalseWords)

\* C25 amended: the same, the value being compared after the white space
\* around it is removed: " yes " reads true and " N " reads false.
C25_FlagParsingStripped == ReadsAs(TrueWords \cup {" yes "}, FalseWords \cup {" N "})

\* "YES" has been read as true by a caller whose default is false
C25_Witness ==
    /\ rs.op = "read_flag"
    /\ LegacyFlag = Text("YES")
    /\ rs.default = FALSE
    /\ rs.res = TRUE


---------------------------------------------------------------------------
(* SpecRename: update_subject_name over todos, legacy progress rows and    *)
(* settings['review_timing']                                               *)

RenameOne_DropsDays(timing, old_name, new_name) ==
    IF timing.t = "dict" /\ JGet(timing, "subject_name", JNull) = JStr(old_name)
    THEN JDict([timing.v EXCEPT !["subject_name"] = JStr(new_name),
                                !["review_days"] = JList(<<>>)])
    ELSE timing

\* the body of the loop over review_timings: an object whose subject_name
\* equals old_name gets new_name
RenameOne(timing, old_name, new_name) ==
    IF timing.t = "dict" /\ JGet(timing, "subject_name", JNull) = JStr(old_name)
    THEN JDict([timing.v EXCEPT !["subject_name"] = JStr(new_name)])
    ELSE timing

RenameTimings_ClearsMalformed(value, old_name, new_name) ==
    IF value = None THEN None
    ELSE IF JsonLoads(value) = None THEN JList(<<>>)
    ELSE IF JsonLoads(value).v.t # "list" THEN JList(<<>>)
    ELSE LET parsed == JsonLoads(value).v.v
         IN JList([k \in 1..Len(parsed) |-> RenameOne(parsed[k], old_name, new_name)])

\* the value of settings['review_timing'] after update_subject_name: a value
\* that is not JSON or not a list is left alone, a list is written back as the
\* JSON text of the renamed list (json.dumps of what json.loads gave)
RenameTimings(value, old_name, new_name) ==
    IF value = None THEN None
    ELSE IF JsonLoads(value) = None THEN value
    ELSE IF JsonLoads(value).v.t # "list" THEN value
    ELSE LET parsed == JsonLoads(value).v.v
         IN JList([k \in 1..Len(parsed) |-> RenameOne(parsed[k], old_name, new_name)])

UpdateSubjectName_RenamesLedger(old_name, new_name) ==
    LET hit_todos == {t \in todos : t.subject = old_name}
        progress_list == {r \in progress : r.subject = old_name}
        hit_rows == {r \in BagToSet(ledger) : r.subject = old_name}
    IN /\ todos' = (todos \ hit_todos) \cup {[t EXCEPT !.subject = new_name] : t \in hit_todos}
       /\ progress' = (progress \ progress_list)
                         \cup {[r EXCEPT !.subject = new_name] : r \in progress_list}
       /\ settings' = [settings EXCEPT !["review_timing"] =
                                          RenameTimings(@, old_name, new_name)]
       /\ ledger' = SetToBag((BagToSet(ledger) \ hit_rows)
                                \cup {[r EXCEPT !.subject = new_name] : r \in hit_rows})
       /\ rs' = [op |-> "rename", old_name |-> old_name, new_name |-> new_name,
                 count |-> Cardinality(hit_todos) + Cardinality(progress_list)]
       /\ UNCHANGED <<seqVars, concVars, dash, summary, tables_ready, lists, items, seqs>>

\* update_subject_name(db, old_name, new_name)
UpdateSubjectName(old_name, new_name) ==
    LET hit_todos == {t \in todos : t.subject = old_name}
        progress_list == {r \in progress : r.subject = old_name}
    IN /\ todos' = (todos \ hit_todos) \cup {[t EXCEPT !.subject = new_name] : t \in hit_todos}
       /\ progress' = (progress \ progress_list)
                         \cup {[r EXCEPT !.subject = new_name] : r \in progress_list}
       /\ settings' = [settings EXCEPT !["review_timing"] =
                                          RenameTimings(@, old_name, new_name)]
       /\ rs' = [op |-> "rename", old_name |-> old_name, new_name |-> new_name,
                 count |-> Cardinality(hit_todos) + Cardinality(progress_list)]
       /\ UNCHANGED <<ledger, seqVars, concVars, dash, summary,
                      tables_ready, lists, items, seqs>>

\* the todos and the legacy progress rows the renames start from
RenameTodos ==
    {TodoRow(1, <<"Mine", "_review", 1>>, "Tax", <<0, 0>>, None),
     TodoRow(2, <<"Mine", "_review", 2>>, "Tax", <<1, 0>>, None),
     TodoRow(3, <<"read">>, "Law", <<0, 9>>, None)}

RenameProgress ==
    {ProgressRow(1, "Tax", "ch1", Num(50), Num(7200000)),
     ProgressRow(3, "Law", "ch1", None, Num(3600000)),
     ProgressRow(4, "Tax", StudyTimeTopic, Num(0), Num(18000000))}

\* the values of settings['review_timing']: no row, a text that is not JSON, an
\* object, and a list with two entries of Tax, one of Law, one whose name has
\* blanks around it, one without a name and one that is no object
RenameTimingValues ==
    <<None,
      Text("{oops"),
      Entry("Tax", <<JInt(1)>>),
      JList(<<Entry("Tax", <<JInt(1), JInt(3), JInt(7)>>),
              Entry("Law", <<JInt(7)>>),
              Entry(" Tax ", <<JInt(1)>>),
              JDict([review_days |-> JList(<<JInt(7)>>)]),
              JStr("Tax"),
              Entry("Tax", <<>>)>>)>>

InitRename ==
    /\ tables_ready = TRUE
    /\ \E i \in DOMAIN RenameTimingValues :
          settings = [NoSettings EXCEPT !["review_timing"] = RenameTimingValues[i]]
    /\ todos \in SUBSET RenameTodos
    /\ progress \in SUBSET RenameProgress
    /\ lists = {}
    /\ items = {}
    /\ seqs = [NoSeqs EXCEPT !.todos = 3]
    /\ rs = NoRs
    /\ ledger = EmptyBag
    /\ dash = NoDash
    /\ summary = NoSummary
    /\ LedgerIdle

NextRename ==
    \E old_name \in {"Tax", "Law"}, new_name \in {"Tax", "Audit"} :
       UpdateSubjectName(old_name, new_name)

SpecRename == InitRename /\ [][NextRename]_vars

\* the row of S with the id of r
SameId(S, r) == CHOOSE x \in S : x.id = r.id

\* the rows of S are those of S0, the subject old_name replaced by new_name
Renamed(S0, S, old_name, new_name) ==
    /\ {x.id : x \in S} = {x.id : x \in S0}
    /\ Cardinality(S) = Cardinality(S0)
    /\ \A x \in S : x.subject # old_name
    /\ \A x \in S0 :
          SameId(S, x) = [x EXCEPT !.subject = IF x.subject = old_name THEN new_name
                                               ELSE x.subject]

\* the entries of review_timing named old_name are named new_name and keep
\* their review_days
TimingsRenamed(v0, v, old_name, new_name) ==
    (v0 # None /\ v0.t = "list") =>
       /\ v # None /\ v.t = "list"
       /\ Len(v.v) = Len(v0.v)
       /\ \A k \in 1..Len(v0.v) :
             (v0.v[k].t = "dict" /\ JGet(v0.v[k], "subject_name", JNull) = JStr(old_name))
                => /\ v.v[k].t = "dict"
                   /\ v.v[k].v["subject_name"] = JStr(new_name)
                   /\ v.v[k].v["review_days"] = v0.v[k].v["review_days"]

\* C26: after update_subject_name(old, new) with old # new no todo and no
\* legacy progress row has subject old, every row that had it has subject new,
\* the other rows are unchanged, every review_timing entry named old is named
\* new with its review_days unchanged, and the count returned is the number of
\* todos plus progress rows renamed.
C26_RenamePropagates ==
    [][(rs'.op = "rename" /\ rs'.old_name # rs'.new_name) =>
         /\ Renamed(todos, todos', rs'.old_name, rs'.new_name)
         /\ Renamed(progress, progress', rs'.old_name, rs'.new_name)
         /\ TimingsRenamed(settings["review_timing"], settings'["review_timing"],
                           rs'.old_name, rs'.new_name)
         /\ rs'.count = Cardinality({t \in todos : t.subject = rs'.old_name})
                          + Cardinality({r \in progress : r.subject = rs'.old_name})]_vars

\* Tax has been renamed Audit in two todos, two progress rows and the entries
\* of review_timing
C26_Witness ==
    /\ rs = [op |-> "rename", old_name |-> "Tax", new_name |-> "Audit", count |-> 4]
    /\ settings["review_timing"] # None
    /\ settings["review_timing"].t = "list"
    /\ settings["review_timing"].v[1] = Entry("Audit", <<JInt(1), JInt(3), JInt(7)>>)
    /\ settings["review_timing"].v[3] = Entry(" Tax ", <<JInt(1)>>)


---------------------------------------------------------------------------
(* Properties of generate and of the items                                 *)

GenerateFailures == {"subject is required", "not_ready", "set_list not found",
                     "set_list has no items"}

\* C27: generate fails without writing a reminder when the subject is empty or
\* blank, when the set list does not exist (not found), or when the set list
\* has no items (empty set).
C27_GenerateRejects ==
    [][\A id \in 1..MaxListSeq, subject \in {"Tax", " ", ""} :
         GenerateTodosFromReviewSet(id, subject, RsStart, None, TRUE) =>
            LET blank == subject \in {"", " "}
                missing == ~(\E l \in lists : l.id = id)
                empty == ~(\E i \in items : i.set_list_id = id)
            IN (blank \/ missing \/ empty) =>
                  /\ todos' = todos
                  /\ seqs' = seqs
                  /\ rs'.status \in GenerateFailures
                  /\ blank => rs'.status = "subject is required"
                  /\ (tables_ready /\ ~blank /\ missing) => rs'.status = "set_list not found"
                  /\ (tables_ready /\ ~blank /\ ~missing /\ empty)
                        => rs'.status = "set_list has no items"]_vars

\* generate has been refused for a list that exists and has no items, with a
\* reminder of an earlier generate in the table
C27_Witness ==
    /\ rs = RsRec("generate", "set_list has no items", 0)
    /\ lists # {}
    /\ Cardinality(todos) = 1


---------------------------------------------------------------------------
(* SpecGen: generate_todos_from_review_set over lists with several items   *)

GenLists == {ReviewSetListRow(1, <<"Mine">>), ReviewSetListRow(2, <<"Tax", LegacySuffix>>)}

\* list 1 with offsets 7, 1, 0 in the order of the ids, list 2 with offset 3
GenItems ==
    {ReviewSetItemRow(1, 1, 7), ReviewSetItemRow(2, 1, 1),
     ReviewSetItemRow(3, 2, 3), ReviewSetItemRow(4, 1, 0)}

InitGen ==
    /\ tables_ready = TRUE
    /\ settings = [NoSettings EXCEPT !["use_legacy_review_sets"] = FalseText]
    /\ lists = GenLists
    /\ items \in SUBSET GenItems
    /\ todos = {}
    /\ seqs = [review_set_lists |-> 2, review_set_items |-> 4, todos |-> 0]
    /\ rs = NoRs
    /\ ledger = EmptyBag
    /\ progress = {}
    /\ dash = NoDash
    /\ summary = NoSummary
    /\ LedgerIdle

GenSubjects == {"Tax", " Tax "}

GenStarts == {<<ParseDateKey(D3), 0>>, <<ParseDateKey(D3), 15>>}

GenProjects == <<None, Some(1)>>

\* generate is called while the id sequence of todos is within MaxTodoSeq
NextGen ==
    \E id \in 1..3, subject \in GenSubjects, start_date \in GenStarts,
       p \in DOMAIN GenProjects, committed \in BOOLEAN :
       /\ seqs.todos <= MaxTodoSeq
       /\ GenerateTodosFromReviewSet(id, subject, start_date, GenProjects[p], committed)

SpecGen == InitGen /\ [][NextGen]_vars

\* the reminders a generate step has added are, for the items of the list in
\* the order of their ids, one per item: the N-th numbered N in its title,
\* with the subject and project given, not completed, due at the midnight of
\* start_date plus the item's offset_days
GeneratedAs(id, subject, start_date, project_id) ==
    LET its == RowsById({i \in items : i.set_list_id = id})
        new == todos' \ todos
    IN /\ Len(its) >= 1
       /\ todos \subseteq todos'
       /\ Cardinality(new) = Len(its)
       /\ rs'.created = Len(its)
       /\ \A n \in 1..Len(its) :
             \E t \in new :
                /\ t.id = seqs.todos + n
                /\ t.title[Len(t.title)] = n
                /\ t.subject = subject
                /\ t.project_id = project_id
                /\ t.completed = FALSE
                /\ t.due_date = <<start_date[1] + its[n].offset_days, 0>>

\* a generate step writes all the reminders of the list or none
AllOrNone ==
    rs'.op = "generate" =>
       \/ todos' = todos
       \/ \E l \in lists :
             Cardinality(todos' \ todos) = Cardinality({i \in items : i.set_list_id = l.id})

\* C28 as stated: a successful generate on a list with k >= 1 items creates
\* exactly k reminders, one per item in id order, the N-th carrying N in its
\* title, with the given subject and project_id, not completed, due at
\* start_date normalized to midnight plus the item's offset_days; all k are
\* persisted or none.
C28_GenerateCreates ==
    [][/\ \A id \in 1..3, subject \in GenSubjects, start_date \in GenStarts,
             p \in DOMAIN GenProjects :
             (GenerateTodosFromReviewSet(id, subject, start_date, GenProjects[p], TRUE)
                /\ rs'.status = "ok")
                => GeneratedAs(id, subject, start_date, GenProjects[p])
       /\ AllOrNone]_vars

\* C28 amended: the same, the reminders carrying the given subject without the
\* white space around it.
C28_GenerateCreatesStripped ==
    [][/\ \A id \in 1..3, subject \in GenSubjects, start_date \in GenStarts,
             p \in DOMAIN GenProjects :
             (GenerateTodosFromReviewSet(id, subject, start_date, GenProjects[p], TRUE)
                /\ rs'.status = "ok")
                => GeneratedAs(id, IF subject = " Tax " THEN "Tax" ELSE subject,
                               start_date, GenProjects[p])
       /\ AllOrNone]_vars

\* generate on the list with offsets 7, 1, 0 has made the three reminders of
\* project 1, due 7, 1 and 0 days after the start
C28_Witness ==
    /\ rs = RsRec("generate", "ok", 3)
    /\ todos = {TodoRow(1, <<"Mine", "_review", 1>>, "Tax", <<ParseDateKey(D3) + 7, 0>>, Some(1)),
                TodoRow(2, <<"Mine", "_review", 2>>, "Tax", <<ParseDateKey(D3) + 1, 0>>, Some(1)),
                TodoRow(3, <<"Mine", "_review", 3>>, "Tax", <<ParseDateKey(D3), 0>>, Some(1))}


---------------------------------------------------------------------------
(* Invariants of the items                                                 *)

\* C29: in every reachable state every item has a non-negative integer
\* offset_days, whichever operation produced it: list creation with items,
\* item creation, item update or seeding from review_timing.
C29_OffsetsNonNegative == \A i \in items : i.offset_days \in Nat

\* every item refers to a list of the table
ItemsHaveLists == \A i \in items : \E l \in lists : l.id = i.set_list_id

\* C30: deleting a list deletes all of its items, so in every reachable state
\* every item refers to an existing list, and the items of the other lists are
\* untouched by the deletion.
C30_CascadeDelete ==
    /\ []ItemsHaveLists
    /\ [][ListDeletedStep =>
            LET deleted == {l.id : l \in lists \ lists'}
            IN /\ Cardinality(deleted) = 1
               /\ items' = {i \in items : i.set_list_id \notin deleted}]_vars

\* of two seeded lists the one with one item has been deleted: the two items
\* of the other list are there
C30_Witness ==
    /\ rs.op = "delete_list"
    /\ rs.status = "ok"
    /\ lists = {ReviewSetListRow(2, <<"Tax", LegacySuffix>>)}
    /\ items = {ReviewSetItemRow(2, 2, 2), ReviewSetItemRow(3, 2, 3)}


---------------------------------------------------------------------------
(* SpecRaces: two workers inside get_all_review_set_lists and              *)
(* delete_review_set_list at the same time, each in its own session on a   *)
(* READ COMMITTED database; every round trip to the database is one step   *)
(* (a SELECT, or the INSERTs or the DELETE with their COMMIT).             *)

\* what a worker's step leaves alone, next to the variables it names
RaceFrame == UNCHANGED <<ledger, seqVars, ledger0, decreased, dashVars, tables_ready, todos, rs>>

\* get_all_review_set_lists(db) is called
BeginGetAll(w) ==
    /\ pc[w] = "idle"
    /\ req' = [req EXCEPT ![w] = [op |-> "get_all"]]
    /\ pc' = [pc EXCEPT ![w] = "ga_count"]
    /\ UNCHANGED <<sess, ret, settings, lists, items, seqs>>
    /\ RaceFrame

\* if db.query(models.ReviewSetList).count() == 0:
GetAllCount(w) ==
    /\ pc[w] = "ga_count"
    /\ pc' = [pc EXCEPT ![w] = IF Cardinality(lists) = 0 THEN "ga_flag" ELSE "ga_return"]
    /\ UNCHANGED <<req, sess, ret, settings, lists, items, seqs>>
    /\ RaceFrame

\* use_legacy = _get_bool_setting(db, "use_legacy_review_sets", True)
GetAllFlag(w) ==
    /\ pc[w] = "ga_flag"
    /\ pc' = [pc EXCEPT ![w] = IF GetBoolSetting(settings, "use_legacy_review_sets", TRUE)
                               THEN "seed_count" ELSE "ga_return"]
    /\ UNCHANGED <<req, sess, ret, settings, lists, items, seqs>>
    /\ RaceFrame

\* _seed_review_set_lists_from_legacy_settings: existing_count =
\* db.query(models.ReviewSetList).count(); if existing_count > 0: return 0
SeedCount(w) ==
    /\ pc[w] = "seed_count"
    /\ pc' = [pc EXCEPT ![w] = IF Cardinality(lists) > 0 THEN "ga_return" ELSE "seed_insert"]
    /\ UNCHANGED <<req, sess, ret, settings, lists, items, seqs>>
    /\ RaceFrame

\* the rest of the seeding: the setting is read and parsed, the lists and
\* items are added and committed, without looking at the count again
SeedInsert(w) ==
    /\ pc[w] = "seed_insert"
    /\ LET setting == settings["review_timing"]
           seeded == IF setting = None \/ JsonLoads(setting) = None
                     THEN [lists |-> lists, items |-> items, seqs |-> seqs, created |-> 0]
                     ELSE IF JsonLoads(setting).v.t # "list"
                     THEN [lists |-> lists, items |-> items, seqs |-> seqs, created |-> 0]
                     ELSE SeedLoop(JsonLoads(setting).v.v, lists, items, seqs)
       IN /\ lists' = seeded.lists
          /\ items' = seeded.items
          /\ seqs' = seeded.seqs
          /\ ret' = [ret EXCEPT ![w] = seeded.created]
    /\ pc' = [pc EXCEPT ![w] = "ga_return"]
    /\ UNCHANGED <<req, sess, settings>>
    /\ RaceFrame

\* return db.query(models.ReviewSetList)...all(): the number of lists returned
GetAllReturn(w) ==
    /\ pc[w] = "ga_return"
    /\ sess' = [sess EXCEPT ![w] = Cardinality(lists)]
    /\ pc' = [pc EXCEPT ![w] = "done"]
    /\ UNCHANGED <<req, ret, settings, lists, items, seqs>>
    /\ RaceFrame

\* delete_review_set_list(db, set_list_id) is called, by one worker at a time
BeginDelete(w, set_list_id) ==
    /\ pc[w] = "idle"
    /\ \A v \in Procs \ {w} : pc[v] \in {"idle", "done"} \/ req[v].op # "delete"
    /\ req' = [req EXCEPT ![w] = [op |-> "delete", set_list_id |-> set_list_id]]
    /\ pc' = [pc EXCEPT ![w] = "del_find"]
    /\ UNCHANGED <<sess, ret, settings, lists, items, seqs>>
    /\ RaceFrame

\* rs = get_review_set_list(db, set_list_id); if rs is None: return None
DeleteFind(w) ==
    /\ pc[w] = "del_find"
    /\ IF FindList(req[w].set_list_id) = None
       THEN /\ pc' = [pc EXCEPT ![w] = "done"]
            /\ ret' = [ret EXCEPT ![w] = 0]
       ELSE /\ pc' = [pc EXCEPT ![w] = "del_commit"]
            /\ ret' = ret
    /\ UNCHANGED <<req, sess, settings, lists, items, seqs>>
    /\ RaceFrame

\* db.delete(rs); db.commit()
DeleteCommit(w) ==
    /\ pc[w] = "del_commit"
    /\ lists' = {l \in lists : l.id # req[w].set_list_id}
    /\ items' = {i \in items : i.set_list_id # req[w].set_list_id}
    /\ ret' = [ret EXCEPT ![w] = 1]
    /\ pc' = [pc EXCEPT ![w] = "del_count"]
    /\ UNCHANGED <<req, sess, settings, seqs>>
    /\ RaceFrame

\* if db.query(models.ReviewSetList).count() == 0:
DeleteCount(w) ==
    /\ pc[w] = "del_count"
    /\ pc' = [pc EXCEPT ![w] = IF Cardinality(lists) = 0 THEN "del_flag" ELSE "done"]
    /\ UNCHANGED <<req, sess, ret, settings, lists, items, seqs>>
    /\ RaceFrame

\* create_or_update_setting(db, "use_legacy_review_sets", "false")
DeleteFlag(w) ==
    /\ pc[w] = "del_flag"
    /\ settings' = CreateOrUpdateSetting(settings, "use_legacy_review_sets", FalseText)
    /\ pc' = [pc EXCEPT ![w] = "done"]
    /\ UNCHANGED <<req, sess, ret, lists, items, seqs>>
    /\ RaceFrame

\* the lists the two calls may find: none, or the one list seeded from the
\* first value of RaceTimings
RaceSeeded == SeedLoop(<<Entry("Tax", <<JInt(1), JInt(3)>>)>>, {}, {}, NoSeqs)

\* review_timing with one entry, and with two entries of two subjects
RaceTimings ==
    <<JList(<<Entry("Tax", <<JInt(1), JInt(3)>>)>>),
      JList(<<Entry("Tax", <<JInt(1), JInt(3)>>), Entry("Law", <<JInt(7)>>)>>)>>

RaceFlags == <<None, JBool(TRUE), JBool(FALSE)>>

InitRaces ==
    /\ tables_ready = TRUE
    /\ \E t \in DOMAIN RaceTimings, f \in DOMAIN RaceFlags :
          settings = [NoSettings EXCEPT !["review_timing"] = RaceTimings[t],
                                        !["use_legacy_review_sets"] = RaceFlags[f]]
    /\ \/ lists = {} /\ items = {} /\ seqs = NoSeqs
       \/ /\ settings["review_timing"] = RaceTimings[1]
          /\ lists = RaceSeeded.lists
          /\ items = RaceSeeded.items
          /\ seqs = RaceSeeded.seqs
    /\ todos = {}
    /\ rs = NoRs
    /\ ledger = EmptyBag
    /\ progress = {}
    /\ dash = NoDash
    /\ summary = NoSummary
    /\ call = NoCall
    /\ hist = [i \in Idents |-> NoHist]
    /\ pc = [w \in Procs |-> "idle"]
    /\ req = [w \in Procs |-> [op |-> "none"]]
    /\ sess = [w \in Procs |-> -1]
    /\ ret = [w \in Procs |-> -1]
    /\ ledger0 = EmptyBag
    /\ decreased = FALSE

NextRaces ==
    \/ \E w \in Procs : BeginGetAll(w)
    \/ \E w \in Procs : GetAllCount(w)
    \/ \E w \in Procs : GetAllFlag(w)
    \/ \E w \in Procs : SeedCount(w)
    \/ \E w \in Procs : SeedInsert(w)
    \/ \E w \in Procs : GetAllReturn(w)
    \/ \E w \in Procs : BeginDelete(w, 1)
    \/ \E w \in Procs : DeleteFind(w)
    \/ \E w \in Procs : DeleteCommit(w)
    \/ \E w \in Procs : DeleteCount(w)
    \/ \E w \in Procs : DeleteFlag(w)

SpecRaces == InitRaces /\ [][NextRaces]_vars

\* C31: seeding's read of the count and its inserts are atomic: when two
\* list-read calls run at the same time, both starting with no list, the flag
\* true and review_timing holding entries, each entry ends with exactly one
\* seeded list, never two.
C31_ConcurrentSeedingOnce ==
    (pc[1] = "done" /\ pc[2] = "done" /\ req[1].op = "get_all" /\ req[2].op = "get_all")
       => NoEntrySeededTwice

---------------------------------------------------------------------------
(* SpecMalformed: the list-read path and update_subject_name over values   *)
(* of settings['review_timing'] that are not JSON or not a JSON array      *)

\* review_timing holding a text that is not JSON, an empty text, an object, a
\* number, a string and null
MalformedTimings ==
    <<Text("{oops"), Text(""), Entry("Tax", <<JInt(1)>>), JInt(7), JStr("Tax"), JNull>>

InitMalformed ==
    /\ tables_ready = TRUE
    /\ \E i \in DOMAIN MalformedTimings, f \in {None, JBool(TRUE)} :
          settings = [NoSettings EXCEPT !["review_timing"] = MalformedTimings[i],
                                        !["use_legacy_review_sets"] = f]
    /\ todos \in SUBSET RenameTodos
    /\ progress \in {{}, RenameProgress}
    /\ lists = {}
    /\ items = {}
    /\ seqs = [NoSeqs EXCEPT !.todos = 3]
    /\ rs = NoRs
    /\ ledger = EmptyBag
    /\ dash = NoDash
    /\ summary = NoSummary
    /\ LedgerIdle

NextMalformed ==
    \/ GetAllReviewSetLists
    \/ \E old_name \in {"Tax", "Law"}, new_name \in {"Tax", "Audit"} :
          UpdateSubjectName(old_name, new_name)

SpecMalformed == InitMalformed /\ [][NextMalformed]_vars

\* the rows of S, each row of subject old_name given new_name
WithSubject(S, old_name, new_name) ==
    {IF x.subject = old_name THEN [x EXCEPT !.subject = new_name] ELSE x : x \in S}

\* C33: with a review_timing value that does not parse or is not an array, a
\* list-read call that would seed completes without error and creates no
\* list, and update_subject_name completes, renames the todos and the progress
\* rows all the same, and leaves the review_timing value as it was.
C33_MalformedNeverFatal ==
    [][/\ rs'.op = "get_all" =>
             /\ rs'.status = "ok"
             /\ rs'.created = 0
             /\ lists' = {} /\ items' = {}
             /\ settings' = settings
       /\ rs'.op = "rename" =>
             /\ todos' = WithSubject(todos, rs'.old_name, rs'.new_name)
             /\ progress' = WithSubject(progress, rs'.old_name, rs'.new_name)
             /\ rs'.count = Cardinality({t \in todos : t.subject = rs'.old_name})
                              + Cardinality({r \in progress : r.subject = rs'.old_name})
             /\ settings'["review_timing"] = settings["review_timing"]]_vars

\* review_timing is not JSON, Tax has been renamed Audit in the todos and the
\* progress rows, and the list-read call after it has created nothing
C33_Witness ==
    /\ rs.op = "get_all"
    /\ rs.status = "ok"
    /\ rs.created = 0
    /\ settings["review_timing"] = Text("{oops")
    /\ GetBoolSetting(settings, "use_legacy_review_sets", TRUE)
    /\ \E t \in todos : t.subject = "Audit"
    /\ \E r \in progress : r.subject = "Audit"


---------------------------------------------------------------------------
(* SpecNotFound: the updates and deletions of lists and items and the      *)
(* creation of items, called with ids that exist and ids that do not       *)

InitNotFound ==
    /\ tables_ready = TRUE
    /\ \E f \in {None, JBool(TRUE), FalseText} :
          settings = [NoSettings EXCEPT !["use_legacy_review_sets"] = f]
    /\ lists \in SUBSET GenLists
    /\ items \in SUBSET {i \in {ReviewSetItemRow(1, 1, 7)} : \E l \in lists : l.id = i.set_list_id}
    /\ seqs = [NoSeqs EXCEPT !.review_set_lists = 2, !.review_set_items = Cardinality(items)]
    /\ todos = {}
    /\ rs = NoRs
    /\ ledger = EmptyBag
    /\ progress = {}
    /\ dash = NoDash
    /\ summary = NoSummary
    /\ LedgerIdle

NextNotFound ==
    \/ \E id \in 1..3, name \in {None, Some(<<"Renamed">>)} : UpdateReviewSetList(id, name)
    \/ \E id \in 1..3 : DeleteReviewSetList(id)
    \/ \E id \in 1..3 : CreateReviewSetItem(id, 2)
    \/ \E id \in 1..3 : UpdateReviewSetItem(id, 5)
    \/ \E id \in 1..3 : DeleteReviewSetItem(id)

SpecNotFound == InitNotFound /\ [][NextNotFound]_vars

\* the call reports not-found and leaves every table as it was
NotFoundNoEffect ==
    /\ rs'.status = "not_found"
    /\ UNCHANGED <<lists, items, seqs, todos, settings, progress, ledger>>

\* C34: with the tables ready, an update or a deletion of a list or of an
\* item, or the creation of an item, that names an id that does not exist
\* reports not-found and changes nothing: the lists and the items are as they
\* were and use_legacy_review_sets is not written; the deletion of an unknown
\* list never stores the flag as false.
C34_UnknownIdNoEffect ==
    [][/\ \A id \in 1..3 :
             LET no_list == ~(\E l \in lists : l.id = id)
                 no_item == ~(\E i \in items : i.id = id)
             IN /\ \A name \in {None, Some(<<"Renamed">>)} :
                      (no_list /\ UpdateReviewSetList(id, name)) => NotFoundNoEffect
                /\ (no_list /\ DeleteReviewSetList(id)) => NotFoundNoEffect
                /\ (no_list /\ CreateReviewSetItem(id, 2)) => NotFoundNoEffect
                /\ (no_item /\ UpdateReviewSetItem(id, 5)) => NotFoundNoEffect
                /\ (no_item /\ DeleteReviewSetItem(id)) => NotFoundNoEffect
       /\ rs'.status = "not_found" =>
             UNCHANGED <<lists, items, seqs, todos, settings, progress, ledger>>]_vars

\* a list that does not exist has been asked to be deleted while the table
\* was empty, and the flag, which has no row, still reads true
C34_Witness ==
    /\ rs = RsRec("delete_list", "not_found", 0)
    /\ lists = {}
    /\ settings["use_legacy_review_sets"] = None
    /\ GetBoolSetting(settings, "use_legacy_review_sets", TRUE)


---------------------------------------------------------------------------
(* Further properties of the ledger                                        *)

\* the identities of one user on one day
IdentsOn(user_id, date_key) ==
    {i \in Idents : i.user_id = user_id /\ i.date_key = date_key}

\* C36: for every user and date_key, after any sequence of calls run one
\* after the other from an empty ledger, on any identities, the deltas returned
\* for that user and date_key sum to the day's total of the summary: accepted
\* time is neither lost nor counted twice, also when totals arrive out of
\* order or are repeated.
C36_DeltasSumToToday ==
    \A u \in Users, d \in DateKeys :
       SumOver(DeltasReturned, IdentsOn(u, d)) = TodayMs(ledger, u, d)

\* on one identity 900000 came before 600000, on another of the same day
\* 600000 came twice, and the rejected replay is the last call
C36_Witness ==
    /\ Accepted(call) /\ call.total_ms = 600000 /\ call.applied_delta_ms = 0
    /\ hist[CallIdent(call)] = [max |-> 900000, sum |-> 900000]
    /\ \E i \in IdentsOn(CallIdent(call).user_id, call.date_key) :
          i # CallIdent(call) /\ hist[i] = [max |-> 600000, sum |-> 600000]
    /\ TodayMs(ledger, CallIdent(call).user_id, call.date_key) = 1500000


---------------------------------------------------------------------------
(* SpecFrame: sync calls on the identities of one day, next to progress    *)
(* rows, todos and settings that the calls have no business with           *)

\* the requests of Sunday 2026-02-01: two identities, and the ill-formed ones
FramePayloads == {p \in Payloads : p.date_key = <<2026, 2, 1>>}

InitFrame ==
    /\ ledger = EmptyBag
    /\ call = NoCall
    /\ hist = [i \in Idents |-> NoHist]
    /\ LedgerIdle
    /\ \E i \in DOMAIN RenameTimingValues :
          settings = [NoSettings EXCEPT !["review_timing"] = RenameTimingValues[i],
                                        !["use_legacy_review_sets"] = FalseText]
    /\ progress \in {{}, RenameProgress}
    /\ todos = RenameTodos
    /\ tables_ready = TRUE
    /\ lists = {}
    /\ items = {}
    /\ seqs = [NoSeqs EXCEPT !.todos = 3]
    /\ rs = NoRs
    /\ dash = NoDash
    /\ summary = NoSummary

NextFrame == \E p \in FramePayloads : SyncStudyTime(p)

SpecFrame == InitFrame /\ [][NextFrame]_vars

\* the rows of the identities other than ident are the same in both tables
OthersUnchanged(led0, led1, ident) ==
    \A r \in BagToSet(led0) \cup BagToSet(led1) :
       IdentOf(r) # ident => CopiesIn(r, led1) = CopiesIn(r, led0)

\* two calls on two identities leave the same table and return the same
\* deltas in either order
Commute(led, i, a, j, b) ==
    /\ ApplyLedger(ApplyLedger(led, i, a), j, b) = ApplyLedger(ApplyLedger(led, j, b), i, a)
    /\ ApplyDelta(ApplyLedger(led, j, b), i, a) = ApplyDelta(led, i, a)
    /\ ApplyDelta(ApplyLedger(led, i, a), j, b) = ApplyDelta(led, j, b)

\* C35: a call changes at most the ledger entry of its own identity: the
\* entries of every other user, date_key, subject or client_session_id, the
\* progress rows and the settings are as they were, and so calls on different
\* identities commute.
C35_OwnEntryOnly ==
    /\ [](\A i, j \in Idents, a, b \in TotalsMs : i # j => Commute(ledger, i, a, j, b))
    /\ [][call'.op = "sync" =>
            /\ IF Accepted(call') THEN OthersUnchanged(ledger, ledger', CallIdent(call'))
               ELSE ledger' = ledger
            /\ progress' = progress
            /\ settings' = settings
            /\ todos' = todos]_vars

\* 900000 has been accepted on Audit while Tax stores 600000, next to three
\* progress rows and a review_timing list
C35_Witness ==
    /\ Accepted(call) /\ call.subject = "Audit" /\ call.applied_delta_ms = 300000
    /\ StoredMs(ledger, Ident("default", <<2026, 2, 1>>, "Tax", "s1")) = 600000
    /\ StoredMs(ledger, CallIdent(call)) = 900000
    /\ progress = RenameProgress
    /\ settings["review_timing"] = RenameTimingValues[4]


---------------------------------------------------------------------------
(* Further properties of the dashboard summary                             *)

\* C37: for every ledger and every streak_days (a value below 1 counts as 1)
\* the dashboard summary has 0 <= current <= longest <= max(streak_days, 1),
\* and reports at least `longest` active dates.
C37_StreakBounds ==
    Answered =>
        LET st == dash.res.streak
        IN /\ 0 <= st.current
           /\ st.current <= st.longest
           /\ st.longest <= Max(dash.streak_days, 1)
           /\ Len(st.active_dates) >= st.longest

\* streak_days = 0 asked on an active Sunday that follows an active Saturday:
\* the window is the Sunday alone
C37_Witness ==
    /\ Answered
    /\ dash.streak_days = 0
    /\ dash.res.user_id = "default" /\ dash.res.date_key = D2
    /\ ActiveDay("default", ParseDateKey(D1))
    /\ dash.res.streak.current = 1
    /\ dash.res.streak.longest = 1
    /\ dash.res.streak.active_dates = <<D2>>


---------------------------------------------------------------------------
(* SpecRenameLedger: update_subject_name and get_subjects_summary on a     *)
(* database that holds ledger rows next to the todos and the progress rows *)

InitRenameLedger ==
    /\ ledger \in WeekendLedgers
    /\ progress \in {{}, LegacyRows}
    /\ todos = RenameTodos
    /\ \E t \in {1, 4} :
          settings = [NoSettings EXCEPT !["review_timing"] = RenameTimingValues[t]]
    /\ tables_ready = TRUE
    /\ lists = {}
    /\ items = {}
    /\ seqs = [NoSeqs EXCEPT !.todos = 3]
    /\ rs = NoRs
    /\ dash = NoDash
    /\ summary = NoSummary
    /\ LedgerIdle

NextRenameLedger ==
    \/ \E old_name \in {"Tax", "Law"} : UpdateSubjectName(old_name, "Audit")
    \/ \E u \in Users : GetSummary(u)

SpecRenameLedger == InitRenameLedger /\ [][NextRenameLedger]_vars

\* the hours the per-subject summary of a user reports for a subject, -1 when
\* the summary has no entry for it
SummaryHours(led, legacy, user_id, subject) ==
    LET res == GetSubjectsSummary(led, legacy, user_id)
    IN IF \E i \in DOMAIN res : res[i].subject = subject
       THEN res[CHOOSE i \in DOMAIN res : res[i].subject = subject].total_hours
       ELSE -1

\* C38: update_subject_name leaves every ledger entry as it was: the entries
\* recorded under the old subject keep it, so the day's and the week's totals
\* of the summary are unchanged by a rename, and the per-subject summary goes
\* on reporting the ledger's hours under the old name.
C38_RenameKeepsLedger ==
    [][rs'.op = "rename" =>
         /\ ledger' = ledger
         /\ \A u \in Users, d \in DateKeys :
               /\ TodayMs(ledger', u, d) = TodayMs(ledger, u, d)
               /\ WeekMs(ledger', u, d) = WeekMs(ledger, u, d)
         /\ \A u \in Users : \A r \in TimeRows(ledger, u) :
               SummaryHours(ledger', progress', u, r.subject)
                  = SumLastTotalMs(ledger, {x \in TimeRows(ledger, u) : x.subject = r.subject})]_vars

\* after Tax was renamed Audit the summary still has Tax, with the hours of
\* its two ledger rows and no progress row, next to Audit with the progress
\* rows that were renamed
C38_Witness ==
    /\ rs.op = "rename" /\ rs.old_name = "Tax" /\ rs.new_name = "Audit"
    /\ summary.op = "subjects" /\ summary.user_id = "default"
    /\ \E i, j \in DOMAIN summary.res :
          /\ summary.res[i].subject = "Tax"
          /\ summary.res[i].count = 0
          /\ summary.res[i].total_hours = 10800000
          /\ summary.res[j].subject = "Audit"
          /\ summary.res[j].count = 2
    /\ \A r \in progress : r.subject # "Tax"


---------------------------------------------------------------------------
(* Further properties of the seeding                                       *)

\* a list made by the seeding: its name carries the suffix of the legacy lists
SeededList(l) == Len(l.name) = 2 /\ l.name[2] = LegacySuffix

\* C39: every list the seeding creates has at least one item, whatever
\* review_timing holds: an entry none of whose review_days converts to an
\* integer leaves no list without items behind.
C39_SeededListsHaveItems ==
    \A l \in lists : SeededList(l) => \E i \in items : i.set_list_id = l.id


---------------------------------------------------------------------------
(* SpecReject: generate_todos_from_review_set called with proper and blank *)
(* subjects on lists that exist or not, with and without items, before and *)
(* after the migration                                                     *)

InitReject ==
    /\ tables_ready \in BOOLEAN
    /\ \E t \in {None, JList(<<Entry("Tax", <<JInt(7)>>)>>)} :
          settings = [NoSettings EXCEPT !["review_timing"] = t,
                                        !["use_legacy_review_sets"] = FalseText]
    /\ lists \in (IF tables_ready THEN SUBSET GenLists ELSE {{}})
    /\ items \in SUBSET {i \in {ReviewSetItemRow(1, 1, 7)} : \E l \in lists : l.id = i.set_list_id}
    /\ seqs = [NoSeqs EXCEPT !.review_set_lists = IF tables_ready THEN 2 ELSE 0,
                             !.review_set_items = Cardinality(items)]
    /\ todos = {}
    /\ rs = NoRs
    /\ ledger = EmptyBag
    /\ progress = {}
    /\ dash = NoDash
    /\ summary = NoSummary
    /\ LedgerIdle

NextReject ==
    \/ \E id \in 1..MaxListSeq, subject \in {"Tax", " ", ""} :
          /\ GenerateTodosFromReviewSet(id, subject, RsStart, None, TRUE)
          /\ WithinSeqs(seqs')
    \/ \E id \in 1..MaxListSeq : CreateReviewSetItem(id, 2)
    \/ \E id \in 1..MaxItemSeq : DeleteReviewSetItem(id)
    \/ AlembicUpgrade

SpecReject == InitReject /\ [][NextReject]_vars

===========================================================================
